---- MODULE Spec2Model ----
\* Model of the MCP server template's tool-call path:
\*   JSONRPCHandler.ServeHTTP -> handleToolsCall -> ToolHandler.ExecuteTool
\*   -> validateParameters -> HTTPClient.ExecuteRequest (buildRequest, retry loop,
\*   processResponse) -> convertResponseToMCPResult -> writeSuccess / writeError.
\* Text is modelled as a sequence of chunks (Go strings that are concatenated),
\* maps as total functions over the key universe with an "absent" marker.
EXTENDS Integers, Sequences, FiniteSets, TLC

\* ---------------------------------------------------------------- bounds
MaxRetries == 3        \* largest configured tool.Retries explored (code allows 0..5)
MaxDoTime == 1         \* longest duration of one client.Do, in seconds

\* ------------------------------------------------------- program constants
HandlerTimeout == 10   \* handleToolsCall: context.WithTimeout(..., 10*time.Second)
RetriesLimit == 5      \* ToolConfig.Retries validate:"min=0,max=5"
BackoffUnit == 1       \* time.Duration(attempt) * time.Second
ToolExecutionErrorCode == 0 - 32000
InvalidParamsCode == 0 - 32602
MethodNotFoundCode == 0 - 32601
InvalidRequestCode == 0 - 32600
ParseErrorCode == 0 - 32700

\* ----------------------------------------------------------------- values
\* A JSON value of the argument map: t is its Go dynamic type, s its %v / template
\* rendering, n its numeric value, len its string length, num whether
\* strconv.ParseFloat accepts s.
Val(t, s, n, l, num) == [t |-> t, s |-> s, n |-> n, len |-> l, num |-> num]
Absent == Val("absent", "", 0, 0, FALSE)
S42 == Val("string", "42", 42, 2, TRUE)
SWidget == Val("string", "widget", 0, 6, FALSE)
SBadEscape == Val("string", "%zz", 0, 3, FALSE)
SNA == Val("string", "n/a", 0, 3, FALSE)
N7 == Val("number", "7", 7, 0, TRUE)
N10 == Val("number", "10", 10, 0, TRUE)
N500 == Val("number", "500", 500, 0, TRUE)
BTrue == Val("boolean", "true", 0, 0, FALSE)

Keys == {"id", "name", "note", "term", "limit"}

\* A map literal: S is a set of <<key, value>> pairs.
MapOf(S) ==
    [k \in Keys |-> IF \E p \in S : p[1] = k THEN (CHOOSE p \in S : p[1] = k)[2] ELSE Absent]
\* params.Arguments after json.Unmarshal: a nil map when "arguments" is missing.
Arguments(isNil, S) == [nil |-> isNil, m |-> MapOf(S)]
NilArguments == Arguments(TRUE, {})
LenMap(a) == Cardinality({k \in Keys : a.m[k].t # "absent"})

\* -------------------------------------------------------------- templates
Lit(s) == [kind |-> "lit", v |-> s]
Key(k) == [kind |-> "key", v |-> k]
\* A template string: ok is whether text/template parses it.
Tmpl(segs) == [ok |-> TRUE, segs |-> segs]
NoTemplate == Tmpl(<<>>)
\* strings.Contains(s, "{{")
ContainsBraces(t) == ~t.ok \/ \E i \in 1..Len(t.segs) : t.segs[i].kind = "key"
\* The raw (unexpanded) text of a template, as fmt prints tool.Endpoint.
RawText(t) == [i \in 1..Len(t.segs) |->
                 IF t.segs[i].kind = "lit" THEN t.segs[i].v ELSE "{{." \o t.segs[i].v \o "}}"]

Err(chunks) == chunks
NoErr == <<>>
Wrap(prefix, e) == <<prefix>> \o e

\* ------------------------------------------------------------ configuration
Param(name, type, required, default, validation) ==
    [name |-> name, type |-> type, required |-> required, default |-> default,
     validation |-> validation]
\* ParameterValidation; present = FALSE is the nil pointer, a bound of -1 a nil bound.
NoParamValidation ==
    [present |-> FALSE, minLength |-> -1, maxLength |-> -1, minValue |-> -1, maxValue |-> -1,
     pattern |-> "", enum |-> {}]
MinLength(n) == [NoParamValidation EXCEPT !.present = TRUE, !.minLength = n]
NumRange(lo, hi) == [NoParamValidation EXCEPT !.present = TRUE, !.minValue = lo, !.maxValue = hi]

\* AuthConfig; type "none" is the nil pointer.
Auth(type, token, envVar, headers) ==
    [type |-> type, token |-> token, username |-> "", password |-> "",
     envVar |-> envVar, headers |-> headers]
NoAuth == Auth("none", "", "", {})

\* ValidationConfig; present = FALSE is the nil pointer.
Validation(present, codes, fields) ==
    [present |-> present, statusCodes |-> codes, requiredFields |-> fields]
NoValidation == Validation(FALSE, {}, <<>>)

ItemsTool ==
    [name |-> "get_item", method |-> "GET",
     endpoint |-> Tmpl(<<Lit("https://api.example.com/items/"), Key("id")>>),
     headers |-> {}, queryParams |-> {}, bodyTemplate |-> NoTemplate, contentType |-> "",
     parameters |-> <<Param("id", "string", TRUE, Absent, NoParamValidation)>>,
     returnType |-> "object", timeout |-> 0, retries |-> 0,
     auth |-> NoAuth, validation |-> NoValidation]

SearchTool ==
    [name |-> "search", method |-> "GET",
     endpoint |-> Tmpl(<<Lit("https://api.example.com/search")>>),
     headers |-> {<<"X-Term", Tmpl(<<Key("term")>>)>>},
     queryParams |-> {<<"q", Tmpl(<<Key("term")>>)>>},
     bodyTemplate |-> NoTemplate, contentType |-> "",
     parameters |-> <<Param("limit", "number", FALSE, N10, NumRange(1, 100)),
                      Param("term", "string", FALSE, Absent, NoParamValidation)>>,
     returnType |-> "string", timeout |-> 0, retries |-> 0,
     auth |-> NoAuth, validation |-> Validation(TRUE, {}, <<>>)]

CreateTool ==
    [name |-> "create_item", method |-> "POST",
     endpoint |-> Tmpl(<<Lit("https://api.example.com/items")>>),
     headers |-> {<<"Accept", Tmpl(<<Lit("application/json")>>)>>},
     queryParams |-> {},
     bodyTemplate |-> Tmpl(<<Lit("{\"name\":\""), Key("name"), Lit("\",\"note\":\""),
                             Key("note"), Lit("\"}")>>),
     contentType |-> "application/json",
     parameters |-> <<Param("note", "string", FALSE, SNA, NoParamValidation),
                      Param("name", "string", TRUE, Absent, MinLength(3))>>,
     returnType |-> "", timeout |-> 0, retries |-> 0,
     auth |-> Auth("bearer", "", "TOKEN", {}),
     validation |-> Validation(TRUE, {200, 404}, <<"id", "name">>)]

\* Authentication descriptors of every type, with and without an explicit secret and
\* an environment variable.
BasicAuth(username, password, envVar) ==
    [Auth("basic", "", envVar, {}) EXCEPT !.username = username, !.password = password]
AuthChoices ==
    {NoAuth,
     Auth("bearer", "", "TOKEN", {}),
     Auth("bearer", "cfg456", "TOKEN", {}),
     Auth("bearer", "cfg456", "", {}),
     Auth("bearer", "", "", {}),
     BasicAuth("bob", "pw", "TOKEN"),
     BasicAuth("bob", "", ""),
     Auth("api_key", "", "TOKEN", {<<"X-Api-Key", "k123">>}),
     Auth("api_key", "", "", {<<"X-Api-Key", "k123">>}),
     Auth("custom", "", "", {<<"authorization", "Custom c1">>})}
\* create_item with configured headers that collide with a default header and with the
\* headers authentication writes.
HeaderTool(auth) ==
    [CreateTool EXCEPT
        !.headers = {<<"Accept", Tmpl(<<Lit("application/json")>>)>>,
                     <<"authorization", Tmpl(<<Lit("Basic configured")>>)>>,
                     <<"X-Api-Key", Tmpl(<<Lit("key-"), Key("name")>>)>>},
        !.auth = auth,
        !.retries = 1]

\* cfg.Tools before the per-run retry count and timeout are filled in.
BaseTools == <<ItemsTool, SearchTool, CreateTool>>
ToolNames == {BaseTools[i].name : i \in 1..Len(BaseTools)}
UnknownTool == "no_such_tool"
TimeoutChoices == {0, 2}

\* os.Getenv: the environment is a function from variable names to values, "" = unset.
EnvChoices == {[TOKEN |-> ""], [TOKEN |-> "abc123"]}
Getenv(e, name) == IF name = "TOKEN" THEN e.TOKEN ELSE ""

\* ----------------------------------------------------------- expandTemplate
RenderSeg(seg, params) ==
    IF seg.kind = "lit" THEN seg.v
    ELSE IF params.m[seg.v].t = "absent" THEN "<no value>"
    ELSE params.m[seg.v].s

\* text/template with the default missingkey option: a key that is not in the map
\* prints "<no value>" and Execute returns no error.
InvalidTemplate == [err |-> <<"invalid template">>, out |-> <<>>]
expandTemplate(templateStr, params) ==
    IF ~templateStr.ok
    THEN InvalidTemplate
    ELSE [err |-> NoErr,
          out |-> [i \in 1..Len(templateStr.segs) |-> RenderSeg(templateStr.segs[i], params)]]

\* ------------------------------------------------------ applyAuthentication
\* http.Header.Set canonicalises the header name.
CanonicalHeaderKey(k) == IF k = "authorization" THEN "Authorization" ELSE k
HeaderSet(h, k, v) == {p \in h : p[1] # CanonicalHeaderKey(k)} \cup {<<CanonicalHeaderKey(k), v>>}
HeaderGet(h, k) == IF \E p \in h : p[1] = k THEN (CHOOSE p \in h : p[1] = k)[2] ELSE <<>>
HeaderHas(h, k) == \E p \in h : p[1] = k

\* applyAuthentication in which the explicit token wins over the environment variable.
applyAuthenticationTokenFirst(headers, auth, e) ==
    IF auth.type = "bearer"
    THEN LET envToken == IF auth.envVar # "" THEN Getenv(e, auth.envVar) ELSE ""
             token == IF auth.token # "" THEN auth.token ELSE envToken
         IN IF token = ""
            THEN [err |-> Err(<<"bearer token not found">>), headers |-> headers]
            ELSE [err |-> NoErr,
                  headers |-> HeaderSet(headers, "Authorization", <<"Bearer ", token>>)]
    ELSE [err |-> NoErr, headers |-> headers]

applyAuthentication(headers, auth, e) ==
    CASE auth.type = "bearer" ->
           LET envToken == IF auth.envVar # "" THEN Getenv(e, auth.envVar) ELSE ""
               token == IF envToken # "" THEN envToken ELSE auth.token
           IN IF token = ""
              THEN [err |-> Err(<<"bearer token not found">>), headers |-> headers]
              ELSE [err |-> NoErr,
                    headers |-> HeaderSet(headers, "Authorization", <<"Bearer ", token>>)]
      [] auth.type = "basic" ->
           LET envPassword == IF auth.envVar # "" THEN Getenv(e, auth.envVar) ELSE ""
               password == IF envPassword # "" THEN envPassword ELSE auth.password
           IN IF auth.username = "" \/ password = ""
              THEN [err |-> Err(<<"basic auth credentials not found">>), headers |-> headers]
              ELSE [err |-> NoErr,
                    headers |-> HeaderSet(headers, "Authorization",
                                          <<"Basic ", auth.username, ":", password>>)]
      [] auth.type = "api_key" ->
           LET envValue == IF auth.envVar # "" THEN Getenv(e, auth.envVar) ELSE ""
               names == {CanonicalHeaderKey(p[1]) : p \in auth.headers}
               value(k) == IF envValue # "" THEN <<envValue>>
                           ELSE <<(CHOOSE p \in auth.headers : CanonicalHeaderKey(p[1]) = k)[2]>>
           IN [err |-> NoErr,
               headers |-> {p \in headers : p[1] \notin names} \cup {<<k, value(k)>> : k \in names}]
      [] auth.type = "custom" ->
           LET names == {CanonicalHeaderKey(p[1]) : p \in auth.headers}
               value(k) == <<(CHOOSE p \in auth.headers : CanonicalHeaderKey(p[1]) = k)[2]>>
           IN [err |-> NoErr,
               headers |-> {p \in headers : p[1] \notin names} \cup {<<k, value(k)>> : k \in names}]
      [] OTHER -> [err |-> NoErr, headers |-> headers]

\* ------------------------------------------------------------- buildRequest
\* url.Parse rejects an invalid percent-escape ("%zz") anywhere in the URL.
UrlParseFails(chunks) == \E i \in 1..Len(chunks) : chunks[i] = "%zz"

NoBody == [kind |-> "none", text |-> <<>>, json |-> MapOf({})]
NoRequest == [method |-> "", url |-> <<>>, query |-> {}, body |-> NoBody, headers |-> {}]
BuildErr(e) == [err |-> e, req |-> NoRequest]

\* The query string after the configured query_params were expanded and set.
ConfiguredQuery(tool, params) ==
    {<<p[1], expandTemplate(p[2], params).out>> : p \in tool.queryParams}
\* ... and after the GET auto-mapping of every declared parameter that is supplied.
AutoMappedNames(tool, params) ==
    IF tool.method = "GET"
    THEN {tool.parameters[i].name : i \in 1..Len(tool.parameters)}
            \cap {k \in Keys : params.m[k].t # "absent"}
    ELSE {}
\* BuildQuery without the GET auto-mapping.
BuildQueryConfiguredOnly(tool, params) == ConfiguredQuery(tool, params)

BuildQuery(tool, params) ==
    {p \in ConfiguredQuery(tool, params) : p[1] \notin AutoMappedNames(tool, params)}
       \cup {<<k, <<params.m[k].s>> >> : k \in AutoMappedNames(tool, params)}

BuildBody(tool, params) ==
    IF tool.bodyTemplate # NoTemplate /\ tool.method # "GET"
    THEN [kind |-> "template", text |-> expandTemplate(tool.bodyTemplate, params).out,
          json |-> MapOf({})]
    ELSE IF tool.method # "GET" /\ LenMap(params) > 0
    THEN [kind |-> "json", text |-> <<>>, json |-> params.m]
    ELSE NoBody

DefaultHeaders(tool, body) ==
    LET h0 == IF tool.contentType # "" /\ body.kind # "none"
              THEN {<<"Content-Type", <<tool.contentType>> >>} ELSE {}
    IN HeaderSet(HeaderSet(h0, "User-Agent", <<"MCP-Server/1.0.0">>),
                 "Accept", <<"application/json, text/plain, */*">>)
\* ConfiguredHeaders that leaves a header alone when it is already set.
ConfiguredHeadersKeepExisting(tool, params, h) ==
    LET names == {CanonicalHeaderKey(p[1]) : p \in tool.headers} \ {p[1] : p \in h}
        value(k) == expandTemplate(
                       (CHOOSE p \in tool.headers : CanonicalHeaderKey(p[1]) = k)[2], params).out
    IN h \cup {<<k, value(k)>> : k \in names}

ConfiguredHeaders(tool, params, h) ==
    LET names == {CanonicalHeaderKey(p[1]) : p \in tool.headers}
        value(k) == expandTemplate(
                       (CHOOSE p \in tool.headers : CanonicalHeaderKey(p[1]) = k)[2], params).out
    IN {p \in h : p[1] \notin names} \cup {<<k, value(k)>> : k \in names}

buildRequest(tool, params, e) ==
    LET endpoint == IF ContainsBraces(tool.endpoint)
                    THEN expandTemplate(tool.endpoint, params)
                    ELSE [err |-> NoErr, out |-> RawText(tool.endpoint)]
        body == BuildBody(tool, params)
        headers == ConfiguredHeaders(tool, params, DefaultHeaders(tool, body))
        authed == IF tool.auth.type # "none"
                  THEN applyAuthentication(headers, tool.auth, e)
                  ELSE [err |-> NoErr, headers |-> headers]
    IN IF endpoint.err # NoErr
       THEN BuildErr(Wrap("failed to expand endpoint template:", endpoint.err))
       ELSE IF UrlParseFails(endpoint.out)
       THEN BuildErr(Err(<<"invalid endpoint URL:", "invalid URL escape">>))
       ELSE IF \E p \in tool.queryParams : ~p[2].ok
       THEN BuildErr(Err(<<"failed to expand query param", "invalid template">>))
       ELSE IF tool.bodyTemplate # NoTemplate /\ tool.method # "GET" /\ ~tool.bodyTemplate.ok
       THEN BuildErr(Err(<<"failed to expand body template:", "invalid template">>))
       ELSE IF \E p \in tool.headers : ~p[2].ok
       THEN BuildErr(Err(<<"failed to expand header", "invalid template">>))
       ELSE IF authed.err # NoErr
       THEN BuildErr(Wrap("failed to apply authentication:", authed.err))
       ELSE [err |-> NoErr,
             req |-> [method |-> tool.method, url |-> endpoint.out,
                      query |-> BuildQuery(tool, params), body |-> body,
                      headers |-> authed.headers]]

\* ------------------------------------------------------- validateParameters
\* regexp.MatchString for the patterns the configuration uses.
MatchString(pattern, value) == IF pattern = "^[0-9]+$" THEN value.num ELSE TRUE

validateParameterValue(param, value) ==
    LET pv == param.validation IN
    CASE param.type = "string" ->
           IF value.t # "string" THEN Err(<<"expected string, got", value.t>>)
           ELSE IF pv.present /\ pv.minLength # -1 /\ value.len < pv.minLength
           THEN Err(<<"string too short, minimum length is", ToString(pv.minLength)>>)
           ELSE IF pv.present /\ pv.maxLength # -1 /\ value.len > pv.maxLength
           THEN Err(<<"string too long, maximum length is", ToString(pv.maxLength)>>)
           ELSE IF pv.present /\ pv.pattern # "" /\ ~MatchString(pv.pattern, value)
           THEN Err(<<"string does not match pattern", pv.pattern>>)
           ELSE IF pv.present /\ pv.enum # {} /\ value.s \notin pv.enum
           THEN Err(<<"value must be one of the enum">>)
           ELSE NoErr
      [] param.type = "number" ->
           IF value.t \notin {"number", "string"} THEN Err(<<"expected number, got", value.t>>)
           ELSE IF value.t = "string" /\ ~value.num
           THEN Err(<<"cannot convert string to number">>)
           ELSE IF pv.present /\ pv.minValue # -1 /\ value.n < pv.minValue
           THEN Err(<<"number too small, minimum value is", ToString(pv.minValue)>>)
           ELSE IF pv.present /\ pv.maxValue # -1 /\ value.n > pv.maxValue
           THEN Err(<<"number too large, maximum value is", ToString(pv.maxValue)>>)
           ELSE NoErr
      [] param.type = "boolean" ->
           IF value.t # "boolean" THEN Err(<<"expected boolean, got", value.t>>) ELSE NoErr
      [] param.type = "object" ->
           IF value.t # "object" THEN Err(<<"expected object, got", value.t>>) ELSE NoErr
      [] param.type = "array" ->
           IF value.t # "array" THEN Err(<<"expected array, got", value.t>>) ELSE NoErr
      [] OTHER -> NoErr

\* The loop of validateParameters from parameter i on; args is the caller's map, which
\* the loop writes defaults into as it goes. Writing into a nil map panics.
RECURSIVE validateFrom(_, _, _)
validateFrom(parameters, i, args) ==
    IF i > Len(parameters) THEN [err |-> NoErr, panic |-> FALSE, args |-> args]
    ELSE LET param == parameters[i]
             value == args.m[param.name]
             exists == value.t # "absent"
         IN IF param.required /\ ~exists
            THEN [err |-> Err(<<"required parameter", param.name, "is missing">>),
                  panic |-> FALSE, args |-> args]
            ELSE IF exists
            THEN LET e == validateParameterValue(param, value)
                 IN IF e # NoErr
                    THEN [err |-> <<"parameter", param.name, "validation failed:">> \o e,
                          panic |-> FALSE, args |-> args]
                    ELSE validateFrom(parameters, i + 1, args)
            ELSE IF param.default.t # "absent"
            THEN IF args.nil
                 THEN [err |-> NoErr, panic |-> TRUE, args |-> args]
                 ELSE validateFrom(parameters, i + 1,
                                   [args EXCEPT !.m[param.name] = param.default])
            ELSE validateFrom(parameters, i + 1, args)

\* validateParameters that only fills in defaults.
validateParametersNoChecks(tool, arguments) ==
    LET declared == {tool.parameters[i] : i \in 1..Len(tool.parameters)}
        filled == [k \in Keys |->
                      IF arguments.m[k].t = "absent"
                         /\ \E q \in declared : q.name = k /\ q.default.t # "absent"
                      THEN (CHOOSE q \in declared : q.name = k).default
                      ELSE arguments.m[k]]
    IN [err |-> NoErr, panic |-> FALSE, args |-> [arguments EXCEPT !.m = filled]]

validateParameters(tool, arguments) == validateFrom(tool.parameters, 1, arguments)

\* ------------------------------------------------------------ RegisterTools
\* h.tools[tool.Name] = &tool inside "for _, tool := range tools": with a per-iteration
\* loop variable (Go >= 1.22) every name maps to its own descriptor; with the shared
\* loop variable of earlier toolchains every entry aliases the variable, which holds
\* the last tool once the loop is over.
RegisterTools(cfgTools, perIteration) ==
    {<<n, IF perIteration
          THEN cfgTools[CHOOSE i \in 1..Len(cfgTools) :
                            cfgTools[i].name = n
                            /\ \A j \in (i + 1)..Len(cfgTools) : cfgTools[j].name # n]
          ELSE cfgTools[Len(cfgTools)]>> : n \in {cfgTools[i].name : i \in 1..Len(cfgTools)}}
\* tool, exists := h.tools[toolName]; the registry is a set of <<name, descriptor>>.
Registered(registry, toolName) == \E p \in registry : p[1] = toolName
Lookup(registry, toolName) == (CHOOSE p \in registry : p[1] = toolName)[2]

\* ------------------------------------------------------ upstream responses
\* An http.Response: json is whether Content-Type contains application/json, empty
\* whether the body has no bytes (http.NoBody), data what json.Unmarshal yields
\* ("object", "array", "invalid"), fields the keys of a parsed object.
Response(status, json, empty, body, data, fields) ==
    [status |-> status, json |-> json, empty |-> empty, body |-> body,
     data |-> data, fields |-> fields]
NoResp == Response(0, FALSE, TRUE, "", "none", {})
R200Item == Response(200, TRUE, FALSE, "{\"id\":\"42\",\"name\":\"widget\"}", "object",
                     {"id", "name"})
R200NoId == Response(200, TRUE, FALSE, "{\"name\":\"widget\"}", "object", {"name"})
R404 == Response(404, TRUE, FALSE, "{\"error\":\"not found\"}", "object", {"error"})
R200Text == Response(200, FALSE, FALSE, "created", "none", {})
R200Array == Response(200, TRUE, FALSE, "[1,2]", "array", {})
R500 == Response(500, FALSE, FALSE, "Internal Server Error", "none", {})
R500Empty == Response(500, FALSE, TRUE, "", "none", {})
Responses == {R200Item, R200NoId, R200Text, R200Array, R404, R500, R500Empty}

\* ------------------------------------------------------ isSuccessStatusCode
\* isSuccessStatusCode that ignores the configured allow-list.
isSuccessStatusCode2xxOnly(statusCode, validation) == statusCode >= 200 /\ statusCode < 300

isSuccessStatusCode(statusCode, validation) ==
    IF validation.present /\ validation.statusCodes # {}
    THEN statusCode \in validation.statusCodes
    ELSE statusCode >= 200 /\ statusCode < 300

\* --------------------------------------------------------- validateResponse
RECURSIVE FirstMissing(_, _, _)
FirstMissing(fields, i, have) ==
    IF i > Len(fields) THEN ""
    ELSE IF fields[i] \notin have THEN fields[i]
    ELSE FirstMissing(fields, i + 1, have)

validateResponse(apiResp, validation) ==
    IF validation.statusCodes # {} /\ apiResp.statusCode \notin validation.statusCodes
    THEN Err(<<"unexpected status code", ToString(apiResp.statusCode)>>)
    ELSE IF Len(validation.requiredFields) > 0 /\ apiResp.data # "none"
    THEN IF apiResp.data # "object" THEN Err(<<"response is not a JSON object">>)
         ELSE IF FirstMissing(validation.requiredFields, 1, apiResp.fields) # ""
         THEN Err(<<"required field", FirstMissing(validation.requiredFields, 1, apiResp.fields),
                    "missing from response">>)
         ELSE NoErr
    ELSE NoErr

\* ---------------------------------------------------------- processResponse
NoAPIResponse == [statusCode |-> 0, body |-> "", data |-> "none", fields |-> {}]
\* closed: resp.Body.Close() was already called on this response. io.ReadAll of a
\* closed body fails unless the body is http.NoBody (no bytes).
processResponse(r, closed, tool) ==
    IF closed /\ ~r.empty
    THEN [err |-> Err(<<"failed to read response body:",
                        "http: read on closed response body">>),
          apiResp |-> NoAPIResponse]
    ELSE LET parsed == r.json /\ ~r.empty /\ r.data # "invalid"
             apiResp == [statusCode |-> r.status, body |-> r.body,
                         data |-> IF parsed THEN r.data ELSE "none",
                         fields |-> IF parsed THEN r.fields ELSE {}]
             verr == IF tool.validation.present
                     THEN validateResponse(apiResp, tool.validation) ELSE NoErr
         IN IF verr # NoErr
            THEN [err |-> Wrap("response validation failed:", verr), apiResp |-> NoAPIResponse]
            ELSE [err |-> NoErr, apiResp |-> apiResp]

\* The part of ExecuteRequest after the retry loop.
AfterLoop(tool, r, closed, lastErr) ==
    IF lastErr # ""
    THEN [err |-> Err(<<"request failed after", ToString(tool.retries + 1), "attempts:",
                        lastErr>>),
          apiResp |-> NoAPIResponse]
    ELSE LET pr == processResponse(r, closed, tool)
         IN IF pr.err # NoErr
            THEN [err |-> Wrap("failed to process response:", pr.err), apiResp |-> NoAPIResponse]
            ELSE pr

\* ----------------------------------------------- convertResponseToMCPResult
ToolResult(isError, text) == [isError |-> isError, text |-> text]
NoToolResult == [isError |-> FALSE, text |-> <<>>]
\* json.MarshalIndent of the parsed payload: the re-encoded, indented body.
MarshalIndent(apiResp) == <<"indent(", apiResp.body, ")">>

convertResponseToMCPResult(response, tool) ==
    IF response.statusCode >= 400
    THEN ToolResult(TRUE, <<"HTTP Error", ToString(response.statusCode), ":", response.body>>)
    ELSE IF tool.returnType = "string" THEN ToolResult(FALSE, <<response.body>>)
    ELSE IF response.data # "none" THEN ToolResult(FALSE, MarshalIndent(response))
    ELSE ToolResult(FALSE, <<response.body>>)

\* ExecuteTool once ExecuteRequest has returned (response, err).
ExecuteToolResult(tool, exec) ==
    IF exec.err # NoErr
    THEN ToolResult(TRUE, <<tool.method>> \o RawText(tool.endpoint) \o <<"failed:">> \o exec.err)
    ELSE convertResponseToMCPResult(exec.apiResp, tool)

\* ------------------------------------------------------------ request ids
\* The "id" member as it stands in a JSON text: absent, null, a string, or a number.
\* A number is hi * 2^53 + n with 0 <= n < 2^53, so that integers beyond the float64
\* mantissa can be written.
JsonId(kind, s, hi, n) == [kind |-> kind, s |-> s, hi |-> hi, n |-> n]
AbsentId == JsonId("absent", "", 0, 0)
NullId == JsonId("null", "", 0, 0)
NumberId(hi, n) == JsonId("number", "", hi, n)
\* strconv.ParseFloat(..., 64) of an integer in [2^53, 2^54): the float64 values there
\* are the even integers, and a tie goes to the one with the even mantissa.
RoundToFloat64(hi, n) ==
    IF hi = 0 \/ n % 2 = 0 THEN n
    ELSE IF ((n - 1) \div 2) % 2 = 0 THEN n - 1 ELSE n + 1
\* json.Decode into ID interface{}: nil, a string, or a float64.
GoValue(t, s, hi, n) == [t |-> t, s |-> s, hi |-> hi, n |-> n]
NilValue == GoValue("nil", "", 0, 0)
DecodeId(id) ==
    CASE id.kind = "number" -> GoValue("float64", "", id.hi, RoundToFloat64(id.hi, id.n))
      [] id.kind = "string" -> GoValue("string", id.s, 0, 0)
      [] OTHER -> NilValue
\* json.Encode of the ID field: null for nil, the digits of an integral float64.
EncodeId(v) ==
    CASE v.t = "float64" -> NumberId(v.hi, v.n)
      [] v.t = "string" -> JsonId("string", v.s, 0, 0)
      [] OTHER -> NullId

\* ------------------------------------------------- writeSuccess / writeError
\* The HTTP response: http is the transport status, the rest the JSON-RPC envelope
\* as encoded (Result and Error are omitempty).
NoResult == [kind |-> "", text |-> <<>>]
NoResponse ==
    [written |-> FALSE, http |-> 0, jsonrpc |-> "", id |-> NullId, hasResult |-> FALSE,
     hasError |-> FALSE, code |-> 0, message |-> "", data |-> <<>>,
     result |-> NoResult]
writeSuccess(id, result) ==
    [written |-> TRUE, http |-> 200, jsonrpc |-> "2.0", id |-> EncodeId(id), hasResult |-> TRUE,
     hasError |-> FALSE, code |-> 0, message |-> "", data |-> <<>>, result |-> result]
\* writeError that reports the failure in the transport status as well.
writeErrorStatus500(id, code, message, data) ==
    [written |-> TRUE, http |-> 500, jsonrpc |-> "2.0", id |-> EncodeId(id), hasResult |-> FALSE,
     hasError |-> TRUE, code |-> code, message |-> message, data |-> data,
     result |-> NoResult]
writeError(id, code, message, data) ==
    [written |-> TRUE, http |-> 200, jsonrpc |-> "2.0", id |-> EncodeId(id), hasResult |-> FALSE,
     hasError |-> TRUE, code |-> code, message |-> message, data |-> data,
     result |-> NoResult]
\* w.WriteHeader(http.StatusNoContent) of the CORS preflight: no envelope.
writePreflight == [NoResponse EXCEPT !.written = TRUE, !.http = 204]

\* handleToolsCall once ExecuteTool has returned a result.
ToolsCallResponse(id, result) ==
    IF result.isError
    THEN writeError(id, ToolExecutionErrorCode, "Tool execution error", result.text)
    ELSE writeSuccess(id, [kind |-> "content", text |-> result.text])
\* handleToolsCall when ExecuteTool returned an error.
ToolsCallFailure(id, name, err) ==
    writeError(id, ToolExecutionErrorCode, "Tool execution error",
               <<"Failed to execute tool", name, ":">> \o err)

\* ------------------------------------------------------ configuration loading
\* A configuration document: the JSON text of a file, or the fields a Go literal
\* sets. An unset string is "", an unset list <<>>; hasTimeout and hasRetries tell a
\* configured 0 from a key that is not there. Durations are in seconds.
ServerDoc(name, version, description) ==
    [name |-> name, version |-> version, description |-> description]
ToolDoc(name, endpoint, method, hasTimeout, timeout, hasRetries, retries, auth) ==
    [name |-> name, description |-> "Test tool", endpoint |-> endpoint, method |-> method,
     contentType |-> "", hasTimeout |-> hasTimeout, timeout |-> timeout,
     hasRetries |-> hasRetries, retries |-> retries,
     parameters |-> <<[name |-> "q", type |-> ""]>>, auth |-> auth]
PromptDoc(name) == [name |-> name, description |-> "A prompt", content |-> "Say hello"]
ResourceDoc(uri, content, filePath, url) ==
    [uri |-> uri, name |-> "A resource", mimeType |-> "text/plain", content |-> content,
     filePath |-> filePath, url |-> url]
SettingsDoc(rateLimit, maxConcurrentRequests, logLevel, environment) ==
    [security |-> [rateLimit |-> rateLimit],
     runtime |-> [maxConcurrentRequests |-> maxConcurrentRequests, defaultTimeout |-> 0,
                  healthCheckInterval |-> 0, logLevel |-> logLevel,
                  environment |-> environment]]
\* file: "missing" (no such file), "malformed" (not JSON) or "json".
Document(file, hasServer, server, toolDocs, prompts, resources, settings) ==
    [file |-> file, hasServer |-> hasServer, server |-> server, tools |-> toolDocs,
     prompts |-> prompts, resources |-> resources, security |-> settings.security,
     runtime |-> settings.runtime]

\* The values of the struct tags and of the defaults.
DefaultToolTimeout == 30
DefaultRuntimeTimeout == 30
DefaultRetries == 3
DefaultRateLimit == 100
MaxRateLimit == 10000
DefaultMaxConcurrentRequests == 100
MaxMaxConcurrentRequests == 1000
DefaultHealthCheckInterval == 60
\* The strings validateSemVer's expression matches, among those of the documents.
SemVers == {"1.0.0", "v2.1.0-beta"}

\* *Config; nil = TRUE is the nil pointer.
ConfigOf(nil, server, toolConfigs, prompts, resources, security, runtime) ==
    [nil |-> nil, server |-> server, tools |-> toolConfigs, prompts |-> prompts,
     resources |-> resources, security |-> security, runtime |-> runtime]
NilConfig ==
    ConfigOf(TRUE, ServerDoc("", "", ""), <<>>, <<>>, <<>>, SettingsDoc(0, 0, "", "").security,
             SettingsDoc(0, 0, "", "").runtime)
\* encoding/json into a zero Config, or a literal: a key that is not there leaves the
\* field at its zero value.
Unmarshal(doc) ==
    ConfigOf(FALSE, IF doc.hasServer THEN doc.server ELSE ServerDoc("", "", ""),
             [i \in 1..Len(doc.tools) |->
                [name |-> doc.tools[i].name, description |-> doc.tools[i].description,
                 endpoint |-> doc.tools[i].endpoint, method |-> doc.tools[i].method,
                 contentType |-> doc.tools[i].contentType,
                 timeout |-> IF doc.tools[i].hasTimeout THEN doc.tools[i].timeout ELSE 0,
                 retries |-> IF doc.tools[i].hasRetries THEN doc.tools[i].retries ELSE 0,
                 parameters |-> doc.tools[i].parameters, auth |-> doc.tools[i].auth]],
             doc.prompts, doc.resources, doc.security, doc.runtime)

setDefaultsTool(t) ==
    LET method == IF t.method = "" THEN "GET" ELSE t.method
    IN [t EXCEPT
          !.method = method,
          !.contentType = IF @ = "" /\ method \in {"POST", "PUT", "PATCH"}
                          THEN "application/json" ELSE @,
          !.timeout = IF @ = 0 THEN DefaultToolTimeout ELSE @,
          !.retries = IF @ = 0 THEN DefaultRetries ELSE @,
          !.parameters = [j \in 1..Len(@) |->
                             [@[j] EXCEPT !.type = IF @ = "" THEN "string" ELSE @]]]
setDefaults(c) ==
    [c EXCEPT
       !.server.version = IF @ = "" THEN "1.0.0" ELSE @,
       !.tools = [i \in 1..Len(@) |-> setDefaultsTool(@[i])],
       !.security.rateLimit = IF @ = 0 THEN DefaultRateLimit ELSE @,
       !.runtime.maxConcurrentRequests = IF @ = 0 THEN DefaultMaxConcurrentRequests ELSE @,
       !.runtime.defaultTimeout = IF @ = 0 THEN DefaultRuntimeTimeout ELSE @,
       !.runtime.healthCheckInterval = IF @ = 0 THEN DefaultHealthCheckInterval ELSE @,
       !.runtime.logLevel = IF @ = "" THEN "info" ELSE @,
       !.runtime.environment = IF @ = "" THEN "development" ELSE @]

\* Load: read, parse, set the defaults. Nothing else is looked at.
Load(doc) ==
    IF doc.file = "missing"
    THEN [cfg |-> NilConfig, err |-> Err(<<"failed to read config file: ", "no such file">>)]
    ELSE IF doc.file = "malformed"
    THEN [cfg |-> NilConfig, err |-> Err(<<"failed to parse config JSON: ", "syntax">>)]
    ELSE [cfg |-> setDefaults(Unmarshal(doc)), err |-> NoErr]

\* validate.Struct: the tags of Config, ServerConfig, SecurityConfig and RuntimeConfig,
\* in field order. The elements of Tools, Prompts and Resources carry no dive tag and
\* are not looked at.
validateStruct(c) ==
    (IF c.server.name = "" THEN <<"Config.Server.Name">> ELSE <<>>)
    \o (IF c.server.version \notin SemVers THEN <<"Config.Server.Version">> ELSE <<>>)
    \o (IF c.security.rateLimit \notin 1..MaxRateLimit
        THEN <<"Config.Security.RateLimit">> ELSE <<>>)
    \o (IF c.runtime.maxConcurrentRequests \notin 1..MaxMaxConcurrentRequests
        THEN <<"Config.Runtime.MaxConcurrentRequests">> ELSE <<>>)
    \o (IF c.runtime.logLevel \notin {"debug", "info", "warn", "error"} THEN <<"Config.Runtime.LogLevel">> ELSE <<>>)
    \o (IF c.runtime.environment \notin {"development", "staging", "production"}
        THEN <<"Config.Runtime.Environment">> ELSE <<>>)

\* The index of the first element that repeats an earlier one, 0 when there is none.
RECURSIVE FirstDuplicate(_, _)
FirstDuplicate(names, i) ==
    IF i > Len(names) THEN 0
    ELSE IF names[i] \in {names[j] : j \in 1..(i - 1)} THEN i
    ELSE FirstDuplicate(names, i + 1)
RECURSIVE validateResources(_, _)
validateResources(resources, i) ==
    IF i > Len(resources) THEN NoErr
    ELSE LET r == resources[i]
             contentSources == Cardinality({k \in {"content", "filePath", "url"} : r[k] # ""})
         IN IF r.uri \in {resources[j].uri : j \in 1..(i - 1)}
            THEN Err(<<"duplicate resource URI: ", r.uri>>)
            ELSE IF contentSources = 0
            THEN Err(<<"resource ", r.uri, " must have at least one content source">>)
            ELSE IF contentSources > 1
            THEN Err(<<"resource ", r.uri, " can only have one content source">>)
            ELSE validateResources(resources, i + 1)
validateAuthConfig(auth) ==
    IF auth.type = "bearer" /\ auth.token = "" /\ auth.envVar = ""
    THEN Err(<<"bearer auth requires either token or env_var">>)
    ELSE IF auth.type = "basic"
            /\ (auth.username = "" \/ (auth.password = "" /\ auth.envVar = ""))
    THEN Err(<<"basic auth requires username and either password or env_var">>)
    ELSE IF auth.type = "api_key" /\ auth.headers = {} /\ auth.envVar = ""
    THEN Err(<<"api_key auth requires headers or env_var">>)
    ELSE IF auth.type = "custom" /\ auth.headers = {}
    THEN Err(<<"custom auth requires headers">>)
    ELSE NoErr
RECURSIVE validateToolAuth(_, _)
validateToolAuth(toolConfigs, i) ==
    IF i > Len(toolConfigs) THEN NoErr
    ELSE IF toolConfigs[i].auth.type # "none" /\ validateAuthConfig(toolConfigs[i].auth) # NoErr
    THEN Wrap("invalid auth config for tool ",
              <<toolConfigs[i].name>> \o validateAuthConfig(toolConfigs[i].auth))
    ELSE validateToolAuth(toolConfigs, i + 1)
validateBusinessRules(c) ==
    LET toolNames == [i \in 1..Len(c.tools) |-> c.tools[i].name]
        promptNames == [i \in 1..Len(c.prompts) |-> c.prompts[i].name]
    IN IF FirstDuplicate(toolNames, 1) # 0
       THEN Err(<<"duplicate tool name: ", toolNames[FirstDuplicate(toolNames, 1)]>>)
       ELSE IF FirstDuplicate(promptNames, 1) # 0
       THEN Err(<<"duplicate prompt name: ", promptNames[FirstDuplicate(promptNames, 1)]>>)
       ELSE IF validateResources(c.resources, 1) # NoErr
       THEN validateResources(c.resources, 1)
       ELSE validateToolAuth(c.tools, 1)
Validate(c) ==
    IF validateStruct(c) # <<>>
    THEN Wrap("configuration validation failed: ", validateStruct(c))
    ELSE IF validateBusinessRules(c) # NoErr
    THEN Wrap("business rule validation failed: ", validateBusinessRules(c))
    ELSE NoErr

\* The documents explored: the server sections and tools of the package's tests, a
\* tool that configures timeout and retries as 0, tools with and without usable
\* authentication, repeated prompt names and resource URIs, resources with no or two
\* content sources, and settings that are unset, in range and out of range.
Documents ==
    LET duplicateTool1 == ToolDoc("duplicate_tool", "https://api.example.com/1", "GET",
                                  FALSE, 0, FALSE, 0, NoAuth)
        duplicateTool2 == ToolDoc("duplicate_tool", "https://api.example.com/2", "GET",
                                  FALSE, 0, FALSE, 0, NoAuth)
        testTool == ToolDoc("test_tool", "https://api.example.com/test", "",
                            FALSE, 0, FALSE, 0, NoAuth)
        explicitZeroTool == ToolDoc("zero_tool", "https://api.example.com/zero", "POST",
                                    TRUE, 0, TRUE, 0, NoAuth)
        explicitTool == ToolDoc("slow_tool", "not-a-url", "PUT", TRUE, 5, TRUE, 2,
                                Auth("bearer", "", "TOKEN", {}))
        badAuthTool == ToolDoc("auth_tool", "https://api.example.com/auth", "GET",
                               FALSE, 0, TRUE, 5, Auth("bearer", "", "", {}))
        toolDocLists ==
            {<<>>, <<duplicateTool1, duplicateTool2>>, <<duplicateTool1, testTool>>,
             <<testTool, explicitZeroTool>>, <<explicitTool, explicitZeroTool>>,
             <<badAuthTool, badAuthTool>>}
               \cup {<<t>> : t \in {duplicateTool1, duplicateTool2, testTool,
                                    explicitZeroTool, explicitTool, badAuthTool}}
        serverChoices ==
            {ServerDoc("", "1.0.0", ""),
             ServerDoc("valid-server", "1.0.0", "Valid server config"),
             ServerDoc("test-server", "", ""), ServerDoc("test-server", "invalid-version", "")}
        promptLists ==
            {<<>>, <<PromptDoc("greet"), PromptDoc("greet")>>,
             <<PromptDoc("greet"), PromptDoc("bye")>>}
        resourceLists ==
            {<<>>, <<ResourceDoc("file:///a", "text", "", "")>>,
             <<ResourceDoc("file:///a", "text", "", ""), ResourceDoc("file:///a", "", "", "u")>>,
             <<ResourceDoc("file:///a", "text", "", ""), ResourceDoc("file:///b", "", "/b", "")>>,
             <<ResourceDoc("file:///a", "", "", "")>>}
        settingsChoices ==
            {SettingsDoc(0, 0, "", ""), SettingsDoc(50, 50, "debug", "production"),
             SettingsDoc(20000, 50, "verbose", "production")}
    IN {Document("missing", FALSE, ServerDoc("", "", ""), <<>>, <<>>, <<>>,
                 SettingsDoc(0, 0, "", "")),
        Document("malformed", TRUE, ServerDoc("test", "", ""), <<>>, <<>>, <<>>,
                 SettingsDoc(0, 0, "", ""))}
          \cup {Document("json", FALSE, ServerDoc("", "", ""), ts, <<>>, <<>>,
                         SettingsDoc(0, 0, "", "")) : ts \in toolDocLists}
          \cup {Document("json", TRUE, sv, ts, ps, rs, st) :
                   sv \in serverChoices, ts \in toolDocLists, ps \in promptLists,
                   rs \in resourceLists, st \in settingsChoices}
\* The document the running server was started from.
StartupDocument ==
    Document("json", TRUE, ServerDoc("valid-server", "1.0.0", "Valid server config"),
             <<ToolDoc("test_tool", "https://api.example.com/test", "", FALSE, 0, FALSE, 0,
                       NoAuth)>>,
             <<>>, <<>>, SettingsDoc(0, 0, "", ""))

\* -------------------------------------------------------------------- state
VARIABLES
    env,                 \* the process environment (os.Getenv)
    perIterationLoopVar, \* the toolchain's range-loop semantics (fixed by the build)
    document,            \* the configuration document handed to the loader
    cfg,                 \* the *Config the loader holds
    loadErr,             \* the error Load returned
    validateErr,         \* the error Validate returned
    stage,               \* where startup stands: start, literal, loaded, validated
    timesDefaulted,      \* how often setDefaults has run on cfg
    calls,               \* the tools/call requests handled concurrently, by goroutine
    config,              \* h.config.Tools, the loaded configuration
    tools,               \* ToolHandler.tools, the registry built by RegisterTools
    request,             \* the JSON-RPC request being served
    pc,                  \* where the handler of the request stands
    tool,                \* ExecuteTool: the descriptor the registry returned
    arguments,           \* the call's argument map (params.Arguments)
    attempt,             \* ExecuteRequest: the loop variable
    now,                 \* seconds since the handler created its context
    deadline,            \* the deadline of ctx
    outReq,              \* req: the request built for the current attempt
    resp,                \* resp: the response of the last client.Do
    respClosed,          \* whether resp.Body.Close() was called on resp
    lastErr,             \* lastErr: "" is nil
    received,            \* whether some client.Do of this tools/call returned a response
    builds,              \* buildRequest calls of this tools/call
    waits,               \* time.Sleep calls of this tools/call
    sends,               \* client.Do calls of this tools/call
    successAt,           \* the attempt that was classified successful, -1 if none
    outcome,             \* how the tools/call ended
    toolResult,          \* the CallToolResult ExecuteTool returned
    response             \* the HTTP response written for the request

staticVars == <<env, perIterationLoopVar, config, tools, document, cfg, loadErr,
                validateErr, stage, timesDefaulted, calls>>
callVars == <<tool, arguments, attempt, now, deadline, outReq, resp, respClosed, lastErr,
              received, builds, waits, sends, successAt, outcome, toolResult>>
vars == <<env, perIterationLoopVar, document, cfg, loadErr, validateErr, stage, timesDefaulted,
          calls,
          config, tools, request, pc, tool, arguments, attempt,
          now, deadline, outReq, resp, respClosed, lastErr, received, builds, waits,
          sends, successAt, outcome, toolResult, response>>

\* ------------------------------------------------------------------- inputs
Ids == {AbsentId, NumberId(0, 1), NumberId(1, 1)}
\* The ids explored for tools/call, whose handler only hands the id to the writer.
CallIds == {AbsentId, NumberId(0, 1)}
ArgumentChoices ==
    {NilArguments,
     Arguments(FALSE, {}),
     Arguments(FALSE, {<<"id", S42>>}),
     Arguments(FALSE, {<<"id", SBadEscape>>}),
     Arguments(FALSE, {<<"id", N7>>}),
     Arguments(FALSE, {<<"name", SWidget>>}),
     Arguments(FALSE, {<<"name", S42>>}),
     Arguments(FALSE, {<<"term", SWidget>>, <<"limit", N500>>})}

\* An HTTP request to the endpoint: wellFormed is whether the body decodes into a
\* JSONRPCRequest, paramsOK whether "params" decodes into the handler's params struct.
Request(verb, wellFormed, id, method, name, args) ==
    [verb |-> verb, wellFormed |-> wellFormed, id |-> id, method |-> method,
     name |-> name, args |-> args, paramsOK |-> TRUE]
UndecodableParams(req) == [req EXCEPT !.paramsOK = FALSE]
NoRequestYet == Request("", FALSE, AbsentId, "", "", NilArguments)
PlainRequest(id, method) == Request("POST", TRUE, id, method, "", NilArguments)

Min(a, b) == IF a < b THEN a ELSE b

\* --------------------------------------------------------------------- Init
ResetCall ==
    /\ tool' = ItemsTool
    /\ arguments' = NilArguments
    /\ attempt' = 0
    /\ now' = 0
    /\ deadline' = 0
    /\ outReq' = NoRequest
    /\ resp' = NoResp
    /\ respClosed' = FALSE
    /\ lastErr' = ""
    /\ received' = FALSE
    /\ builds' = 0
    /\ waits' = 0
    /\ sends' = 0
    /\ successAt' = -1
    /\ outcome' = ""
    /\ toolResult' = NoToolResult

\* The goroutines net/http runs ServeHTTP on, one per connection, and the locals of
\* a tools/call on each of them.
CallSlots == {1, 2}
IdleCall ==
    [pc |-> "idle", id |-> AbsentId, name |-> "", args |-> NilArguments, tool |-> ItemsTool,
     arguments |-> NilArguments, attempt |-> 0, outReq |-> NoRequest, resp |-> NoResp,
     respClosed |-> FALSE, lastErr |-> "", outcome |-> "", response |-> NoResponse]
NoCalls == [c \in CallSlots |-> IdleCall]

\* The loader has run: main loaded and validated the startup document.
LoaderDone ==
    /\ document = StartupDocument
    /\ cfg = Load(StartupDocument).cfg
    /\ loadErr = NoErr
    /\ validateErr = NoErr
    /\ stage = "validated"
    /\ timesDefaulted = 1

Init ==
    /\ env \in EnvChoices
    /\ LoaderDone
    /\ calls = NoCalls
    /\ perIterationLoopVar \in BOOLEAN
    /\ \E r \in 0..Min(MaxRetries, RetriesLimit), t \in TimeoutChoices :
          config = [i \in 1..Len(BaseTools) |->
                       [BaseTools[i] EXCEPT !.retries = r, !.timeout = t]]
    /\ tools = RegisterTools(config, perIterationLoopVar)
    /\ request = NoRequestYet
    /\ pc = "idle"
    /\ tool = ItemsTool
    /\ arguments = NilArguments
    /\ attempt = 0
    /\ now = 0
    /\ deadline = 0
    /\ outReq = NoRequest
    /\ resp = NoResp
    /\ respClosed = FALSE
    /\ lastErr = ""
    /\ received = FALSE
    /\ builds = 0
    /\ waits = 0
    /\ sends = 0
    /\ successAt = -1
    /\ outcome = ""
    /\ toolResult = NoToolResult
    /\ response = NoResponse

\* The server started with a single tool, one per authentication descriptor.
AuthInit ==
    /\ env \in EnvChoices
    /\ LoaderDone
    /\ calls = NoCalls
    /\ perIterationLoopVar \in BOOLEAN
    /\ \E auth \in AuthChoices : config = <<HeaderTool(auth)>>
    /\ tools = RegisterTools(config, perIterationLoopVar)
    /\ request = NoRequestYet
    /\ pc = "idle"
    /\ tool = ItemsTool
    /\ arguments = NilArguments
    /\ attempt = 0
    /\ now = 0
    /\ deadline = 0
    /\ outReq = NoRequest
    /\ resp = NoResp
    /\ respClosed = FALSE
    /\ lastErr = ""
    /\ received = FALSE
    /\ builds = 0
    /\ waits = 0
    /\ sends = 0
    /\ successAt = -1
    /\ outcome = ""
    /\ toolResult = NoToolResult
    /\ response = NoResponse

\* ---------------------------------------------------------------- ServeHTTP
\* The cases of "switch req.Method"; every other method takes the default branch.
Methods ==
    {"initialize", "initialized", "tools/list", "tools/call", "prompts/list", "prompts/get",
     "resources/list", "resources/read", "ping"}
MethodInputs == Methods \cup {"bogus", "tools/Call"}
\* The switch with ping as its default branch.
RouteDefaultPing(method) == IF method \in Methods THEN method ELSE "ping"
Route(method) == IF method \in Methods THEN method ELSE "default"

\* h.config.Prompts and h.config.Resources.
PromptNames == {"greet"}
ResourceURIs == {"file:///readme"}
PromptInputs == PromptNames \cup {"no_such_prompt"}
ResourceInputs == ResourceURIs \cup {"file:///nothing"}

\* What every request that ServeHTTP answers in one step leaves behind: the
\* server is idle again and no tool call is in progress.
Answered ==
    /\ pc = "idle"
    /\ pc' = "idle"
    /\ ResetCall
    /\ UNCHANGED staticVars

Preflight ==
    \E id \in Ids :
        /\ Answered
        /\ request' = Request("OPTIONS", TRUE, id, "", "", NilArguments)
        /\ response' = writePreflight

RejectVerb ==
    \E id \in Ids :
        /\ Answered
        /\ request' = Request("GET", TRUE, id, "tools/list", "", NilArguments)
        /\ response' = writeError(NilValue, InvalidRequestCode, "Invalid Request",
                                  <<"Only POST method is allowed">>)

RejectBody ==
    /\ Answered
    /\ request' = Request("POST", FALSE, AbsentId, "", "", NilArguments)
    /\ response' = writeError(NilValue, ParseErrorCode, "Parse error", <<"invalid character">>)

InitializeResult == [kind |-> "initialize", text |-> <<"2024-11-05">>]
EmptyResult == [kind |-> "empty", text |-> <<>>]
\* handleInitialize that accepts the handshake once and refuses to repeat it.
handleInitializeOnce ==
    \E id \in Ids, m \in MethodInputs :
        /\ Route(m) = "initialize"
        /\ Answered
        /\ request' = PlainRequest(id, m)
        /\ response' = IF request.method = "initialize"
                       THEN writeError(DecodeId(id), InvalidRequestCode, "Invalid Request",
                                       <<"already initialized">>)
                       ELSE writeSuccess(DecodeId(id), InitializeResult)

handleInitialize ==
    \E id \in Ids, m \in MethodInputs :
        /\ Route(m) = "initialize"
        /\ Answered
        /\ request' = PlainRequest(id, m)
        /\ response' = writeSuccess(DecodeId(id), InitializeResult)

handleInitialized ==
    \E id \in Ids, m \in MethodInputs :
        /\ Route(m) = "initialized"
        /\ Answered
        /\ request' = PlainRequest(id, m)
        /\ response' = writeSuccess(DecodeId(id), EmptyResult)

\* propSchema: the type, the default when there is one, and the constraints that
\* apply to the parameter's type ("" , -1 and {} stand for a key that is not set).
PropSchema(param) ==
    LET pv == param.validation
        str == pv.present /\ param.type = "string"
        num == pv.present /\ param.type = "number"
    IN [type |-> param.type, default |-> param.default,
        minLength |-> IF str THEN pv.minLength ELSE -1,
        maxLength |-> IF str THEN pv.maxLength ELSE -1,
        pattern |-> IF str THEN pv.pattern ELSE "",
        enum |-> IF str THEN pv.enum ELSE {},
        minimum |-> IF num THEN pv.minValue ELSE -1,
        maximum |-> IF num THEN pv.maxValue ELSE -1]
\* required: the names of the required parameters, in declared order.
RECURSIVE RequiredFrom(_, _)
RequiredFrom(parameters, i) ==
    IF i > Len(parameters) THEN <<>>
    ELSE (IF parameters[i].required THEN <<parameters[i].name>> ELSE <<>>)
            \o RequiredFrom(parameters, i + 1)
ToolDef(t) ==
    [name |-> t.name,
     properties |-> {<<t.parameters[i].name, PropSchema(t.parameters[i])>> :
                        i \in 1..Len(t.parameters)},
     required |-> RequiredFrom(t.parameters, 1)]
\* The tool definitions in configuration order.
ToolDefinitions(cfgTools) == [i \in 1..Len(cfgTools) |-> ToolDef(cfgTools[i])]
ToolsListResult(defs) ==
    [kind |-> "tools", text |-> [i \in 1..Len(defs) |-> defs[i].name], tools |-> defs]

\* handleToolsList that shows, as a parameter's default, the value the last tools/call
\* left in its argument map.
handleToolsListAfterCalls ==
    \E id \in Ids, m \in MethodInputs :
        /\ Route(m) = "tools/list"
        /\ Answered
        /\ request' = PlainRequest(id, m)
        /\ response' =
              writeSuccess(DecodeId(id),
                           ToolsListResult(
                              [i \in 1..Len(config) |->
                                 [ToolDef(config[i]) EXCEPT
                                     !.properties =
                                        {<<q[1], [q[2] EXCEPT !.default = arguments.m[q[1]]]>> :
                                            q \in @}]]))

\* The tool definitions are listed from h.config.Tools, in configuration order.
handleToolsList ==
    \E id \in Ids, m \in MethodInputs :
        /\ Route(m) = "tools/list"
        /\ Answered
        /\ request' = PlainRequest(id, m)
        /\ response' = writeSuccess(DecodeId(id), ToolsListResult(ToolDefinitions(config)))

\* handleToolsCall when params does not decode into {name string, arguments map}.
handleToolsCallBadParams ==
    \E id \in Ids, m \in MethodInputs :
        /\ Route(m) = "tools/call"
        /\ Answered
        /\ request' = UndecodableParams(PlainRequest(id, m))
        /\ response' = writeError(DecodeId(id), InvalidParamsCode, "Invalid params",
                                  <<"json: cannot unmarshal">>)

handlePromptsList ==
    \E id \in Ids, m \in MethodInputs :
        /\ Route(m) = "prompts/list"
        /\ Answered
        /\ request' = PlainRequest(id, m)
        /\ response' = writeSuccess(DecodeId(id), [kind |-> "prompts", text |-> <<"greet">>])

handlePromptsGet ==
    \E id \in Ids, m \in MethodInputs, name \in PromptInputs :
        /\ Route(m) = "prompts/get"
        /\ Answered
        /\ request' = Request("POST", TRUE, id, m, name, NilArguments)
        /\ response' = IF name \in PromptNames
                       THEN writeSuccess(DecodeId(id), [kind |-> "prompt", text |-> <<name>>])
                       ELSE writeError(DecodeId(id), InvalidParamsCode, "Invalid params",
                                       <<"Prompt", name, "not found">>)

handleResourcesList ==
    \E id \in Ids, m \in MethodInputs :
        /\ Route(m) = "resources/list"
        /\ Answered
        /\ request' = PlainRequest(id, m)
        /\ response' = writeSuccess(DecodeId(id),
                                    [kind |-> "resources", text |-> <<"file:///readme">>])

handleResourcesRead ==
    \E id \in Ids, m \in MethodInputs, uri \in ResourceInputs :
        /\ Route(m) = "resources/read"
        /\ Answered
        /\ request' = Request("POST", TRUE, id, m, uri, NilArguments)
        /\ response' = IF uri \in ResourceURIs
                       THEN writeSuccess(DecodeId(id), [kind |-> "contents", text |-> <<uri>>])
                       ELSE writeError(DecodeId(id), InvalidParamsCode, "Invalid params",
                                       <<"Resource", uri, "not found">>)

handlePing ==
    \E id \in Ids, m \in MethodInputs :
        /\ Route(m) = "ping"
        /\ Answered
        /\ request' = PlainRequest(id, m)
        /\ response' = writeSuccess(DecodeId(id), EmptyResult)

\* The default branch of the switch.
MethodNotFound ==
    \E id \in Ids, m \in MethodInputs :
        /\ Route(m) = "default"
        /\ Answered
        /\ request' = PlainRequest(id, m)
        /\ response' = writeError(DecodeId(id), MethodNotFoundCode, "Method not found",
                                  <<"Unknown method:", m>>)

\* ---------------------------------------------------------- handleToolsCall
\* handleToolsCall up to the first attempt of ExecuteRequest: decode the params,
\* create the 10 s context, look the tool up, validate the arguments, derive the
\* tool's own deadline.
handleToolsCall ==
    /\ pc = "idle"
    /\ \E m \in MethodInputs, id \in CallIds, name \in ToolNames \cup {UnknownTool},
          args \in ArgumentChoices :
          /\ Route(m) = "tools/call"
          /\ request' = Request("POST", TRUE, id, m, name, args)
          /\ IF ~Registered(tools, name)
             THEN /\ response' = ToolsCallFailure(DecodeId(id), name, <<"tool", name, "not found">>)
                  /\ outcome' = "not_found"
                  /\ pc' = "idle"
                  /\ tool' = ItemsTool /\ arguments' = args /\ deadline' = HandlerTimeout
             ELSE LET t == Lookup(tools, name)
                      v == validateParameters(t, args)
                  IN /\ tool' = t
                     /\ arguments' = v.args
                     /\ IF v.panic
                        THEN /\ response' = NoResponse
                             /\ outcome' = "panic"
                             /\ pc' = "idle"
                             /\ deadline' = HandlerTimeout
                        ELSE IF v.err # NoErr
                        THEN /\ response' = ToolsCallFailure(
                                               DecodeId(id), name,
                                               Wrap("parameter validation failed:", v.err))
                             /\ outcome' = "invalid_params"
                             /\ pc' = "idle"
                             /\ deadline' = HandlerTimeout
                        ELSE /\ response' = NoResponse
                             /\ outcome' = ""
                             /\ pc' = "build"
                             /\ deadline' = IF t.timeout > 0
                                            THEN Min(HandlerTimeout, t.timeout)
                                            ELSE HandlerTimeout
    /\ attempt' = 0 /\ now' = 0 /\ outReq' = NoRequest /\ resp' = NoResp
    /\ respClosed' = FALSE /\ lastErr' = "" /\ received' = FALSE
    /\ builds' = 0 /\ waits' = 0 /\ sends' = 0
    /\ successAt' = -1 /\ toolResult' = NoToolResult
    /\ UNCHANGED staticVars

\* ----------------------------------------------------------- ExecuteRequest
\* The call ends: ExecuteRequest returned exec, ExecuteTool maps it to a tool result
\* and handleToolsCall writes the response.
Complete(exec, how) ==
    /\ toolResult' = ExecuteToolResult(tool, exec)
    /\ response' = ToolsCallResponse(DecodeId(request.id), ExecuteToolResult(tool, exec))
    /\ outcome' = how
    /\ pc' = "idle"

\* Top of the loop body: buildRequest, and the return when it fails.
BuildStep ==
    /\ pc = "build"
    /\ LET b == buildRequest(tool, arguments, env)
       IN /\ builds' = builds + 1
          /\ IF b.err # NoErr
             THEN /\ Complete([err |-> Wrap("failed to build request:", b.err),
                               apiResp |-> NoAPIResponse], "build_failed")
                  /\ UNCHANGED outReq
             ELSE /\ outReq' = b.req
                  /\ pc' = IF attempt > 0 THEN "backoff" ELSE "send"
                  /\ UNCHANGED <<toolResult, response, outcome>>
    /\ UNCHANGED <<staticVars, request, tool, arguments, attempt, now, deadline, resp,
                   respClosed, lastErr, received, waits, sends, successAt>>

\* BackoffStep with a fixed delay of one unit before every retry.
BackoffStepFixedDelay ==
    /\ pc = "backoff"
    /\ now' = now + BackoffUnit
    /\ waits' = waits + 1
    /\ pc' = "send"
    /\ UNCHANGED <<staticVars, request, tool, arguments, attempt, deadline, outReq, resp,
                   respClosed, lastErr, received, builds, sends, successAt, outcome,
                   toolResult, response>>

\* time.Sleep(time.Duration(attempt) * time.Second): not interrupted by ctx.
BackoffStep ==
    /\ pc = "backoff"
    /\ now' = now + attempt * BackoffUnit
    /\ waits' = waits + 1
    /\ pc' = "send"
    /\ UNCHANGED <<staticVars, request, tool, arguments, attempt, deadline, outReq, resp,
                   respClosed, lastErr, received, builds, sends, successAt, outcome,
                   toolResult, response>>

\* AfterDo with the loop bound off by one (attempt < tool.Retries).
AfterDoOneAttemptShort(r, e) ==
    /\ resp' = r
    /\ lastErr' = e
    /\ received' = (received \/ e = "")
    /\ sends' = sends + 1
    /\ IF e = "" /\ isSuccessStatusCode(r.status, tool.validation)
       THEN /\ successAt' = attempt
            /\ respClosed' = FALSE
            /\ attempt' = attempt
            /\ pc' = "finish"
       ELSE /\ successAt' = successAt
            /\ respClosed' = (e = "")
            /\ attempt' = attempt + 1
            /\ pc' = IF attempt + 1 < tool.retries THEN "build" ELSE "finish"

\* AfterDo without the break on success.
AfterDoNoBreak(r, e) ==
    /\ resp' = r
    /\ lastErr' = e
    /\ received' = (received \/ e = "")
    /\ sends' = sends + 1
    /\ successAt' = IF e = "" /\ isSuccessStatusCode(r.status, tool.validation) /\ successAt = -1
                    THEN attempt ELSE successAt
    /\ respClosed' = FALSE
    /\ attempt' = attempt + 1
    /\ pc' = IF attempt + 1 <= tool.retries THEN "build" ELSE "finish"

\* What follows client.Do in the loop body: break on success, else close the body
\* and go round again while attempt <= tool.Retries.
AfterDo(r, e) ==
    /\ resp' = r
    /\ lastErr' = e
    /\ received' = (received \/ e = "")
    /\ sends' = sends + 1
    /\ IF e = "" /\ isSuccessStatusCode(r.status, tool.validation)
       THEN /\ successAt' = attempt
            /\ respClosed' = FALSE
            /\ attempt' = attempt
            /\ pc' = "finish"
       ELSE /\ successAt' = successAt
            /\ respClosed' = (e = "")
            /\ attempt' = attempt + 1
            /\ pc' = IF attempt + 1 <= tool.retries THEN "build" ELSE "finish"

\* resp, lastErr = h.client.Do(req): with ctx already expired Do fails at once; else
\* the upstream answers or the network fails after d seconds, unless the deadline
\* comes first and aborts the attempt.
SendStep ==
    /\ pc = "send"
    /\ IF now >= deadline
       THEN /\ AfterDo(NoResp, "context deadline exceeded")
            /\ now' = now
       ELSE \E d \in 0..MaxDoTime :
               IF now + d >= deadline
               THEN /\ AfterDo(NoResp, "context deadline exceeded")
                    /\ now' = deadline
               ELSE /\ now' = now + d
                    /\ \/ AfterDo(NoResp, "connection refused")
                       \/ \E r \in Responses : AfterDo(r, "")
    /\ UNCHANGED <<staticVars, request, tool, arguments, deadline, outReq, builds, waits,
                   outcome, toolResult, response>>

\* After the loop: the exhaustion error or processResponse, then the result mapping
\* and the JSON-RPC response.
FinishStep ==
    /\ pc = "finish"
    /\ LET exec == AfterLoop(tool, resp, respClosed, lastErr)
       IN Complete(exec, IF lastErr # "" THEN "exec_failed"
                         ELSE IF exec.err # NoErr THEN "process_failed"
                         ELSE IF exec.apiResp.statusCode >= 400 THEN "http_error"
                         ELSE "ok")
    /\ UNCHANGED <<staticVars, request, tool, arguments, attempt, now, deadline, outReq,
                   resp, respClosed, lastErr, received, builds, waits, sends, successAt>>

Next ==
    \/ Preflight
    \/ RejectVerb
    \/ RejectBody
    \/ handleInitialize
    \/ handleInitialized
    \/ handleToolsList
    \/ handleToolsCallBadParams
    \/ handlePromptsList
    \/ handlePromptsGet
    \/ handleResourcesList
    \/ handleResourcesRead
    \/ handlePing
    \/ MethodNotFound
    \/ handleToolsCall
    \/ BuildStep
    \/ BackoffStep
    \/ SendStep
    \/ FinishStep

Spec == Init /\ [][Next]_vars
AuthSpec == AuthInit /\ [][Next]_vars

\* ------------------------------------------------------------------ startup
\* Before the server is built: no tool handler, no request.
ConfigInit ==
    /\ env \in EnvChoices
    /\ perIterationLoopVar \in BOOLEAN
    /\ document \in Documents
    /\ cfg = NilConfig
    /\ loadErr = NoErr
    /\ validateErr = NoErr
    /\ stage = "start"
    /\ timesDefaulted = 0
    /\ calls = NoCalls
    /\ config = <<>>
    /\ tools = {}
    /\ request = NoRequestYet
    /\ pc = "idle"
    /\ tool = ItemsTool
    /\ arguments = NilArguments
    /\ attempt = 0
    /\ now = 0
    /\ deadline = 0
    /\ outReq = NoRequest
    /\ resp = NoResp
    /\ respClosed = FALSE
    /\ lastErr = ""
    /\ received = FALSE
    /\ builds = 0
    /\ waits = 0
    /\ sends = 0
    /\ successAt = -1
    /\ outcome = ""
    /\ toolResult = NoToolResult
    /\ response = NoResponse
serverVars == <<env, perIterationLoopVar, config, tools, request, pc, tool, arguments,
                attempt, now, deadline, outReq, resp, respClosed, lastErr, received, builds,
                waits, sends, successAt, outcome, toolResult, response, calls>>

\* cfg, err := config.Load(path)
LoadStep ==
    /\ stage = "start"
    /\ cfg' = Load(document).cfg
    /\ loadErr' = Load(document).err
    /\ timesDefaulted' = IF Load(document).err = NoErr THEN 1 ELSE 0
    /\ stage' = "loaded"
    /\ UNCHANGED <<document, validateErr, serverVars>>
\* cfg := &config.Config{...}: the document's fields written as a literal.
LiteralStep ==
    /\ stage = "start"
    /\ document.file = "json"
    /\ cfg' = Unmarshal(document)
    /\ stage' = "literal"
    /\ UNCHANGED <<document, loadErr, validateErr, timesDefaulted, serverVars>>
\* setDefaults(cfg), on a literal or once more on a loaded configuration.
SetDefaultsStep ==
    /\ stage \in {"literal", "loaded"}
    /\ ~cfg.nil
    /\ timesDefaulted < 2
    /\ cfg' = setDefaults(cfg)
    /\ timesDefaulted' = timesDefaulted + 1
    /\ UNCHANGED <<document, loadErr, validateErr, stage, serverVars>>
\* err := config.Validate(cfg); main calls it only after Load succeeded.
ValidateStep ==
    /\ stage \in {"literal", "loaded"}
    /\ ~cfg.nil
    /\ validateErr' = Validate(cfg)
    /\ stage' = "validated"
    /\ UNCHANGED <<document, cfg, loadErr, timesDefaulted, serverVars>>
ConfigSpec ==
    ConfigInit /\ [][LoadStep \/ LiteralStep \/ SetDefaultsStep \/ ValidateStep]_vars

\* ------------------------------------------------------- concurrent requests
\* Two tools/call requests served at once. Each goroutine has its own request, its
\* own decoded argument map and its own locals of ExecuteTool and ExecuteRequest;
\* h.config, h.tools and the environment are what they share. The clock is left
\* out: time.Sleep and the deadlines touch no data.
ConcurrentArguments ==
    {NilArguments, Arguments(FALSE, {}), Arguments(FALSE, {<<"id", S42>>}),
     Arguments(FALSE, {<<"name", SWidget>>})}
ConcurrentInit ==
    /\ env \in EnvChoices
    /\ perIterationLoopVar \in BOOLEAN
    /\ LoaderDone
    /\ calls = NoCalls
    /\ config = [i \in 1..Len(BaseTools) |-> [BaseTools[i] EXCEPT !.retries = 1]]
    /\ tools = RegisterTools(config, perIterationLoopVar)
    /\ request = NoRequestYet
    /\ pc = "idle"
    /\ tool = ItemsTool
    /\ arguments = NilArguments
    /\ attempt = 0
    /\ now = 0
    /\ deadline = 0
    /\ outReq = NoRequest
    /\ resp = NoResp
    /\ respClosed = FALSE
    /\ lastErr = ""
    /\ received = FALSE
    /\ builds = 0
    /\ waits = 0
    /\ sends = 0
    /\ successAt = -1
    /\ outcome = ""
    /\ toolResult = NoToolResult
    /\ response = NoResponse
sequentialVars == <<env, perIterationLoopVar, config, tools, document, cfg, loadErr,
                    validateErr, stage, timesDefaulted, request, pc, tool, arguments,
                    attempt, now, deadline, outReq, resp, respClosed, lastErr, received,
                    builds, waits, sends, successAt, outcome, toolResult, response>>

\* handleToolsCall and ExecuteTool up to ExecuteRequest, on the goroutine's locals.
Started(id, name, args) ==
    IF ~Registered(tools, name)
    THEN [IdleCall EXCEPT
            !.pc = "done", !.id = id, !.name = name, !.args = args, !.arguments = args,
            !.outcome = "not_found",
            !.response = ToolsCallFailure(DecodeId(id), name, <<"tool", name, "not found">>)]
    ELSE LET t == Lookup(tools, name)
             v == validateParameters(t, args)
         IN [IdleCall EXCEPT
               !.id = id, !.name = name, !.args = args, !.tool = t, !.arguments = v.args,
               !.pc = IF v.panic \/ v.err # NoErr THEN "done" ELSE "build",
               !.outcome = IF v.panic THEN "panic"
                           ELSE IF v.err # NoErr THEN "invalid_params" ELSE "",
               !.response = IF v.panic \/ v.err = NoErr THEN NoResponse
                            ELSE ToolsCallFailure(DecodeId(id), name,
                                                  Wrap("parameter validation failed:", v.err))]
\* The end of the call: the result mapping and the JSON-RPC response.
Finished(call, exec, how) ==
    [call EXCEPT !.pc = "done", !.outcome = how,
                 !.response = ToolsCallResponse(DecodeId(call.id),
                                                ExecuteToolResult(call.tool, exec))]
\* The loop body after client.Do returned (r, e).
AfterDoCall(call, r, e) ==
    IF e = "" /\ isSuccessStatusCode(r.status, call.tool.validation)
    THEN [call EXCEPT !.resp = r, !.lastErr = e, !.respClosed = FALSE, !.pc = "finish"]
    ELSE [call EXCEPT !.resp = r, !.lastErr = e, !.respClosed = (e = ""),
                      !.attempt = @ + 1,
                      !.pc = IF call.attempt + 1 <= call.tool.retries THEN "build"
                             ELSE "finish"]

\* CallStart with the validated argument map kept in a field of the handler, which
\* every goroutine reads its arguments from.
CallStartSharedArguments ==
    \E c \in CallSlots, name \in ToolNames \cup {UnknownTool}, args \in ConcurrentArguments :
        /\ calls[c].pc = "idle"
        /\ calls' = [d \in CallSlots |->
                        IF d = c THEN Started(NumberId(0, c), name, args)
                        ELSE [calls[d] EXCEPT
                                 !.arguments = Started(NumberId(0, c), name, args).arguments]]
        /\ UNCHANGED sequentialVars

CallStart ==
    \E c \in CallSlots, name \in ToolNames \cup {UnknownTool}, args \in ConcurrentArguments :
        /\ calls[c].pc = "idle"
        /\ calls' = [calls EXCEPT ![c] = Started(NumberId(0, c), name, args)]
        /\ UNCHANGED sequentialVars
CallBuild ==
    \E c \in CallSlots :
        /\ calls[c].pc = "build"
        /\ LET b == buildRequest(calls[c].tool, calls[c].arguments, env)
           IN calls' = [calls EXCEPT
                          ![c] = IF b.err # NoErr
                                 THEN Finished(calls[c],
                                               [err |-> Wrap("failed to build request:", b.err),
                                                apiResp |-> NoAPIResponse], "build_failed")
                                 ELSE [calls[c] EXCEPT !.outReq = b.req, !.pc = "send"]]
        /\ UNCHANGED sequentialVars
CallSend ==
    \E c \in CallSlots :
        /\ calls[c].pc = "send"
        /\ \/ calls' = [calls EXCEPT ![c] = AfterDoCall(calls[c], NoResp, "connection refused")]
           \/ \E r \in {R200Item, R500} :
                 calls' = [calls EXCEPT ![c] = AfterDoCall(calls[c], r, "")]
        /\ UNCHANGED sequentialVars
CallFinish ==
    \E c \in CallSlots :
        /\ calls[c].pc = "finish"
        /\ LET exec == AfterLoop(calls[c].tool, calls[c].resp, calls[c].respClosed,
                                 calls[c].lastErr)
           IN calls' = [calls EXCEPT
                          ![c] = Finished(calls[c], exec,
                                          IF calls[c].lastErr # "" THEN "exec_failed"
                                          ELSE IF exec.err # NoErr THEN "process_failed"
                                          ELSE IF exec.apiResp.statusCode >= 400
                                          THEN "http_error" ELSE "ok")]
        /\ UNCHANGED sequentialVars
ConcurrentSpec ==
    ConcurrentInit /\ [][CallStart \/ CallBuild \/ CallSend \/ CallFinish]_vars

TypeOK ==
    /\ pc \in {"idle", "build", "backoff", "send", "finish"}
    /\ attempt \in 0..(RetriesLimit + 1)
    /\ sends \in 0..(RetriesLimit + 1)

\* =================================================================== claims
Chunks(text) == {text[i] : i \in 1..Len(text)}
CallDone == pc = "idle" /\ request.method = "tools/call" /\ outcome # ""
\* The templates buildRequest expands for a tool.
UsedTemplates(t) ==
    (IF ContainsBraces(t.endpoint) THEN {t.endpoint} ELSE {})
       \cup {p[2] : p \in t.queryParams}
       \cup {p[2] : p \in t.headers}
       \cup (IF t.bodyTemplate # NoTemplate /\ t.method # "GET" THEN {t.bodyTemplate} ELSE {})
PlaceholderKeys(t) == {t.segs[i].v : i \in {j \in 1..Len(t.segs) : t.segs[j].kind = "key"}}

\* C1: when no attempt of a call is classified successful (every client.Do ends in an
\* error or a non-success status), the call makes exactly retries+1 client.Do calls,
\* and attempt k is only started once the k earlier ones have returned.
C1_ExactlyRetriesPlusOneSends ==
    /\ (CallDone /\ outcome \in {"exec_failed", "process_failed", "http_error", "ok"}
          /\ successAt = -1)
         => sends = tool.retries + 1
    /\ pc \in {"build", "backoff", "send"} => sends = attempt
C1_Witness ==
    CallDone /\ outcome = "exec_failed" /\ successAt = -1 /\ tool.retries = 3 /\ sends = 4

\* C2: with a tool timeout > 0, once the deadline has passed no further attempt is
\* started: no request build, no backoff wait and no send happens after it.
C2_NoAttemptAfterDeadline ==
    [][(tool.timeout > 0 /\ pc \in {"build", "backoff", "send"} /\ now >= deadline)
          => (builds' = builds /\ waits' = waits /\ sends' = sends)]_vars

\* C3: when all retries+1 attempts are used up and the last one produced a response
\* with a non-success status, that response reaches processResponse with its body
\* still readable and the tool result is error content containing the status code.
C3_LastResponseReadable ==
    (CallDone /\ sends = tool.retries + 1 /\ successAt = -1 /\ lastErr = "" /\ resp # NoResp)
       => /\ ~respClosed
          /\ toolResult.isError
          /\ ToString(resp.status) \in Chunks(toolResult.text)

\* C4: every failure of the HTTP call of a validated tools/call is reported in a
\* JSON-RPC response with a result member carrying the error content and no error
\* member.
C4_ToolFailureIsResult ==
    (CallDone /\ outcome \in {"build_failed", "exec_failed", "process_failed", "http_error"})
       => /\ response.written
          /\ response.hasResult
          /\ ~response.hasError
          /\ response.result.text = toolResult.text

\* C5: a tools/call whose arguments fail validation (required parameter missing,
\* ill-typed or out-of-constraint value) gets a JSON-RPC error with code -32602 that
\* names the failing parameter.
C5_InvalidParamsCode ==
    (CallDone /\ outcome = "invalid_params")
       => /\ response.hasError
          /\ response.code = InvalidParamsCode
          /\ \E i \in 1..Len(tool.parameters) :
                tool.parameters[i].name \in Chunks(response.data)

\* C6: a tools/call naming a tool that is not in the registry gets a JSON-RPC error
\* with code -32602, no result.
C6_UnknownToolInvalidParams ==
    (CallDone /\ outcome = "not_found")
       => /\ response.hasError
          /\ ~response.hasResult
          /\ response.code = InvalidParamsCode

\* C7: client.Do is only called after every declared parameter passed validation and
\* the request was built without error; a validation or build failure ends the call
\* with no client.Do call at all.
C7_NoNetworkBeforeValidationAndBuild ==
    /\ (sends > 0 \/ pc = "send")
         => /\ \A i \in 1..Len(tool.parameters) :
                  LET param == tool.parameters[i]
                      value == request.args.m[param.name]
                  IN IF value.t = "absent" THEN ~param.required
                     ELSE validateParameterValue(param, value) = NoErr
            /\ buildRequest(tool, arguments, env).err = NoErr
            /\ outReq = buildRequest(tool, arguments, env).req
    /\ outcome \in {"invalid_params", "build_failed", "not_found", "panic"} => sends = 0
C7_Witness == CallDone /\ outcome = "build_failed" /\ builds = 1 /\ sends = 0

\* C8: a request is never built from a template with a placeholder whose key is
\* absent from the argument map: such an expansion fails.
C8_UnresolvedPlaceholderFails ==
    outReq # NoRequest
       => \A t \in UsedTemplates(tool) : \A k \in PlaceholderKeys(t) :
             arguments.m[k].t # "absent"

\* C9 (as claimed): the GET items tool called with {id: "42"} sends to exactly
\* https://api.example.com/items/42, no query string, no body.
C9_ItemsRequestNoQuery ==
    (outReq # NoRequest /\ tool.name = "get_item"
       /\ arguments = Arguments(FALSE, {<<"id", S42>>}))
       => /\ outReq.url = <<"https://api.example.com/items/", "42">>
          /\ outReq.query = {}
          /\ outReq.body.kind = "none"
\* C9 (amended): the request goes to https://api.example.com/items/42 with the query
\* string id=42 that the GET auto-mapping adds, and carries no body.
C9_ItemsRequestAutoMapped ==
    (outReq # NoRequest /\ tool.name = "get_item"
       /\ arguments = Arguments(FALSE, {<<"id", S42>>}))
       => /\ outReq.method = "GET"
          /\ outReq.url = <<"https://api.example.com/items/", "42">>
          /\ outReq.query = {<<"id", <<"42">> >>}
          /\ outReq.body.kind = "none"
C9_Witness ==
    /\ pc = "send" /\ tool.name = "get_item" /\ outReq # NoRequest
    /\ arguments = Arguments(FALSE, {<<"id", S42>>})

\* C10: the loop stops at the first attempt classified successful: no client.Do
\* follows it, its response (body not closed) is the one processResponse gets, and
\* an APIResponse that is returned is the one made from it.
C10_StopsAtFirstSuccess ==
    successAt # -1
       => /\ sends = successAt + 1
          /\ attempt = successAt
          /\ pc \in {"finish", "idle"}
          /\ lastErr = ""
          /\ isSuccessStatusCode(resp.status, tool.validation)
          /\ ~respClosed
          /\ CallDone =>
                /\ outcome \in {"ok", "http_error", "process_failed"}
                /\ outcome \in {"ok", "http_error"}
                     => toolResult = convertResponseToMCPResult(
                                        [statusCode |-> resp.status, body |-> resp.body,
                                         data |-> IF resp.json /\ ~resp.empty THEN resp.data
                                                  ELSE "none",
                                         fields |-> IF resp.json /\ ~resp.empty
                                                    THEN resp.fields ELSE {}],
                                        tool)
C10_Witness ==
    CallDone /\ successAt = 1 /\ sends = 2 /\ tool.retries = 3 /\ outcome = "ok"

\* C11: when some attempt of an exhausted call received a response and none was
\* classified successful, the call does not end with the "request failed after N
\* attempts" transport error, in whatever order responses and network failures came;
\* that error is kept for calls in which every attempt was a network failure.
C11_LastReceivedResponseForwarded ==
    (CallDone /\ sends = tool.retries + 1 /\ successAt = -1)
       => /\ received => outcome # "exec_failed"
          /\ outcome = "exec_failed"
                => /\ ~received
                   /\ toolResult.text =
                         <<tool.method>> \o RawText(tool.endpoint)
                            \o <<"failed:", "request failed after", ToString(tool.retries + 1),
                                 "attempts:", lastErr>>
C11_Witness ==
    /\ CallDone /\ sends = tool.retries + 1 /\ successAt = -1 /\ tool.retries = 1
    /\ received /\ lastErr = "connection refused" /\ outcome = "exec_failed"
\* C12: for a tool whose response validation lists required fields, processing of a
\* response that was read and whose status is allowed succeeds only if the payload is
\* a parsed JSON object holding every required field; with no structured payload, a
\* non-object payload or a missing field it fails, and a missing field is reported as
\* the first one missing in configured order.
C12_RequiredFieldsEnforced ==
    (CallDone /\ outcome \in {"ok", "http_error", "process_failed"}
       /\ tool.validation.present /\ Len(tool.validation.requiredFields) > 0
       /\ ~(respClosed /\ ~resp.empty)
       /\ (tool.validation.statusCodes = {} \/ resp.status \in tool.validation.statusCodes))
       => LET required == tool.validation.requiredFields
              isObject == resp.json /\ ~resp.empty /\ resp.data = "object"
              complete == isObject /\ \A i \in 1..Len(required) : required[i] \in resp.fields
          IN /\ (outcome # "process_failed") <=> complete
             /\ (isObject /\ ~complete)
                   => FirstMissing(required, 1, resp.fields) \in Chunks(toolResult.text)
C12_Witness ==
    /\ CallDone /\ tool.name = "create_item" /\ resp = R200Text /\ ~respClosed
    /\ outcome = "ok" /\ Len(tool.validation.requiredFields) > 0
\* C13: a response an attempt received is classified successful iff its status is in
\* the tool's allow-list when one is configured and non-empty, and iff its status is
\* in 200..299 when there is no validation descriptor or the allow-list is empty.
C13_SuccessClassification ==
    (sends > 0 /\ lastErr = "" /\ resp # NoResp)
       => LET v == tool.validation
          IN (successAt # -1)
                <=> IF v.present /\ v.statusCodes # {}
                    THEN resp.status \in v.statusCodes
                    ELSE resp.status \in 200..299
C13_Witness ==
    /\ successAt # -1 /\ lastErr = "" /\ resp.status = 404
    /\ tool.validation.present /\ 404 \in tool.validation.statusCodes
\* C14: in a tools/call whose arguments are not rejected, every declared parameter
\* that is optional, has a default and is absent from the call's arguments holds its
\* default in the argument map from validation on, and the request that is built is
\* the one built from the arguments completed with those defaults.
C14_DefaultsVisible ==
    (request.method = "tools/call" /\ Registered(tools, request.name)
       /\ outcome # "invalid_params" /\ (pc # "idle" \/ outcome # ""))
       => LET defaulted == {i \in 1..Len(tool.parameters) :
                              /\ ~tool.parameters[i].required
                              /\ tool.parameters[i].default.t # "absent"
                              /\ request.args.m[tool.parameters[i].name].t = "absent"}
              completed == [k \in Keys |->
                              IF \E i \in defaulted : tool.parameters[i].name = k
                              THEN tool.parameters[CHOOSE i \in defaulted :
                                                      tool.parameters[i].name = k].default
                              ELSE request.args.m[k]]
          IN /\ \A i \in defaulted :
                   arguments.m[tool.parameters[i].name] = tool.parameters[i].default
             /\ outReq # NoRequest
                   => outReq = buildRequest(tool, [nil |-> FALSE, m |-> completed], env).req
C14_Witness ==
    /\ request.method = "tools/call" /\ request.name = "search" /\ tool.name = "search"
    /\ request.args = NilArguments /\ outcome = "panic" /\ arguments.m["limit"] = Absent
\* C15: with bearer auth a request that is built carries Authorization "Bearer <v>",
\* v being the value of the environment variable named by env_var when it is set and
\* non-empty and the explicit token otherwise; when both are empty no request is built
\* or sent and the call ends with a construction failure.
C15_BearerResolution ==
    tool.auth.type = "bearer"
       => LET envToken == IF tool.auth.envVar # "" THEN Getenv(env, tool.auth.envVar) ELSE ""
              v == IF envToken # "" THEN envToken ELSE tool.auth.token
          IN /\ outReq # NoRequest
                   => /\ v # ""
                      /\ HeaderGet(outReq.headers, "Authorization") = <<"Bearer ", v>>
             /\ v = "" => /\ outReq = NoRequest
                          /\ sends = 0
                          /\ (CallDone /\ builds > 0) => outcome = "build_failed"
C15_Witness ==
    /\ pc = "send" /\ tool.auth = Auth("bearer", "cfg456", "TOKEN", {})
    /\ env.TOKEN = "abc123"
    /\ HeaderGet(outReq.headers, "Authorization") = <<"Bearer ", "abc123">>

\* C16: in a request that is built, a header written by authentication has the value
\* authentication gives it, any other header that is configured has its configured
\* (expanded) value, and User-Agent and Accept have their defaults unless configured
\* or written by authentication.
C16_LaterStageWins ==
    outReq # NoRequest
       => LET auth == tool.auth
              authNames == CASE auth.type \in {"bearer", "basic"} -> {"Authorization"}
                             [] auth.type \in {"api_key", "custom"} ->
                                  {CanonicalHeaderKey(p[1]) : p \in auth.headers}
                             [] OTHER -> {}
              authOnly == applyAuthentication({}, auth, env).headers
              confNames == {CanonicalHeaderKey(p[1]) : p \in tool.headers}
              configured(k) == (CHOOSE p \in tool.headers : CanonicalHeaderKey(p[1]) = k)[2]
              get(k) == HeaderGet(outReq.headers, k)
          IN /\ \A k \in authNames : HeaderHas(outReq.headers, k) /\ get(k) = HeaderGet(authOnly, k)
             /\ \A k \in confNames \ authNames :
                   get(k) = expandTemplate(configured(k), arguments).out
             /\ ("User-Agent" \notin confNames \cup authNames)
                   => get("User-Agent") = <<"MCP-Server/1.0.0">>
             /\ ("Accept" \notin confNames \cup authNames)
                   => get("Accept") = <<"application/json, text/plain, */*">>
C16_Witness ==
    /\ pc = "send" /\ tool.auth.type = "bearer"
    /\ \E p \in tool.headers : p[1] = "authorization"
    /\ HeaderGet(outReq.headers, "Authorization") = <<"Bearer ", "abc123">>
    /\ HeaderGet(outReq.headers, "Accept") = <<"application/json">>
    /\ HeaderGet(outReq.headers, "User-Agent") = <<"MCP-Server/1.0.0">>
\* C17: a JSON-RPC response to a request that was parsed carries the request's id
\* unchanged, null when the request had none; a response to a request rejected before
\* parsing carries a null id.
C17_IdEchoed ==
    (pc = "idle" /\ response.written /\ response.jsonrpc = "2.0")
       => IF request.verb = "POST" /\ request.wellFormed
          THEN response.id = IF request.id = AbsentId THEN NullId ELSE request.id
          ELSE response.id = NullId
C17_Witness ==
    /\ pc = "idle" /\ response.written /\ request.method = "ping"
    /\ request.id = NumberId(1, 1) /\ response.id = NumberId(1, 0)
\* C18: once a request other than the CORS preflight has been handled, one response
\* has been written for it, and it carries the marker "2.0" and exactly one of result
\* and error.
C18_ExactlyOneOfResultAndError ==
    (pc = "idle" /\ request # NoRequestYet /\ request.verb # "OPTIONS")
       => /\ response.written
          /\ response.jsonrpc = "2.0"
          /\ response.hasResult # response.hasError
C18_Witness ==
    /\ pc = "idle" /\ request.method = "tools/call" /\ outcome = "panic"
    /\ ~response.written

\* C19: a request with a verb other than POST and OPTIONS is answered -32600, a POST
\* whose body is not JSON -32700, and a well-formed request whose method is none of
\* the nine routed ones -32601; each gets an error and no result, and no tool call is
\* started for it.
C19_UnroutableRejected ==
    (pc = "idle" /\ request # NoRequestYet)
       => LET rejected(code) == /\ response.written /\ response.hasError
                                /\ ~response.hasResult /\ response.code = code
                                /\ outcome = "" /\ builds = 0 /\ sends = 0
          IN /\ request.verb \notin {"POST", "OPTIONS"} => rejected(InvalidRequestCode)
             /\ (request.verb = "POST" /\ ~request.wellFormed) => rejected(ParseErrorCode)
             /\ (request.verb = "POST" /\ request.wellFormed
                   /\ request.method \notin {"initialize", "initialized", "tools/list",
                                              "tools/call", "prompts/list", "prompts/get",
                                              "resources/list", "resources/read", "ping"})
                   => rejected(MethodNotFoundCode)
C19_Witness ==
    /\ pc = "idle" /\ request.verb = "POST" /\ request.wellFormed
    /\ request.method = "tools/Call"
    /\ response.hasError /\ response.code = MethodNotFoundCode

\* C20: every response that carries a JSON-RPC envelope, result or error, is written
\* with transport status 200, whatever the upstream API answered.
C20_TransportStatus200 ==
    (response.written /\ response.jsonrpc = "2.0") => response.http = 200
C20_Witness ==
    /\ CallDone /\ lastErr = "" /\ resp.status = 500 /\ toolResult.isError
    /\ response.hasError /\ response.code = ToolExecutionErrorCode /\ response.http = 200
\* C21: the configuration is never written after startup and every tools/list
\* response is the list of definitions (names in configuration order, properties,
\* required lists) of that configuration, so any two tools/list responses are
\* identical whatever was handled between them.
C21_ToolsListIdempotent ==
    /\ [][config' = config]_vars
    /\ []((pc = "idle" /\ request.verb = "POST" /\ request.wellFormed
             /\ request.method = "tools/list")
            => /\ response.hasResult
               /\ response.result.tools = ToolDefinitions(config)
               /\ Len(response.result.tools) = Len(config))
C21_Witness ==
    /\ pc = "idle" /\ request.verb = "POST" /\ request.method = "tools/list"
    /\ response.hasResult /\ Len(response.result.tools) = 3
    /\ response.result.tools[2].name = "search"
    /\ response.result.tools[3].required = <<"name">>

\* C22: Load returns an error and a nil configuration for malformed JSON, for a
\* document without a server section and for an empty server name; it returns a
\* configuration and no error only when the server section is valid.
C22_LoadRejectsInvalidServer ==
    stage = "loaded"
       => /\ (document.file = "malformed" \/ ~document.hasServer
                \/ document.server.name = "")
               => (loadErr # NoErr /\ cfg.nil)
          /\ (~cfg.nil /\ loadErr = NoErr)
               => (document.hasServer /\ document.server.name # "")
C22_Witness ==
    /\ stage = "loaded" /\ document.file = "json" /\ ~document.hasServer
    /\ Len(document.tools) = 0

\* C23: Validate returns no error for a configuration that only holds a server
\* name, a semantic version and a description, everything else at its zero value.
C23_MinimalConfigValid ==
    (/\ stage = "validated"
     /\ cfg.server = ServerDoc("valid-server", "1.0.0", "Valid server config")
     /\ cfg.tools = <<>> /\ cfg.prompts = <<>> /\ cfg.resources = <<>>
     /\ cfg.security = SettingsDoc(0, 0, "", "").security
     /\ cfg.runtime = SettingsDoc(0, 0, "", "").runtime)
       => validateErr = NoErr
C23_Witness ==
    /\ stage = "validated" /\ timesDefaulted = 0
    /\ cfg.server = ServerDoc("valid-server", "1.0.0", "Valid server config")
    /\ cfg.tools = <<>> /\ cfg.prompts = <<>> /\ cfg.resources = <<>>
    /\ cfg.security.rateLimit = 0 /\ cfg.runtime.logLevel = ""

\* C24: a configuration Validate accepts has pairwise distinct tool names, prompt
\* names and resource URIs, and a configuration with two tools of one name is
\* rejected with an error that contains "duplicate tool name".
C24_UniqueNames ==
    stage = "validated"
       => /\ validateErr = NoErr
               => /\ \A i, j \in 1..Len(cfg.tools) :
                        cfg.tools[i].name = cfg.tools[j].name => i = j
                  /\ \A i, j \in 1..Len(cfg.prompts) :
                        cfg.prompts[i].name = cfg.prompts[j].name => i = j
                  /\ \A i, j \in 1..Len(cfg.resources) :
                        cfg.resources[i].uri = cfg.resources[j].uri => i = j
          /\ (\E i, j \in 1..Len(cfg.tools) :
                 i # j /\ cfg.tools[i].name = cfg.tools[j].name)
               => (validateErr # NoErr /\ "duplicate tool name: " \in Chunks(validateErr))
C24_Witness ==
    /\ stage = "validated" /\ Len(cfg.tools) = 2
    /\ cfg.tools[1].name = "duplicate_tool" /\ cfg.tools[2].name = "duplicate_tool"
    /\ cfg.server.name = "test-server" /\ cfg.server.version = "1.0.0"
    /\ "duplicate tool name: " \in Chunks(validateErr)

\* C25: the defaults give an unset method, timeout and retries the values GET, 30s
\* and 3, an unset version, rate limit, request limit and log level the values
\* 1.0.0, 100, 100 and info; a configured value in range, retries = 0 and
\* timeout = 0 included, stays as configured; a second application changes nothing.
C25_DefaultsKeepConfigured ==
    (~cfg.nil /\ timesDefaulted >= 1)
       => /\ \A i \in 1..Len(cfg.tools) :
               LET d == document.tools[i]
                   t == cfg.tools[i]
               IN /\ t.method = IF d.method = "" THEN "GET" ELSE d.method
                  /\ ~d.hasTimeout => t.timeout = 30
                  /\ ~d.hasRetries => t.retries = 3
                  /\ d.hasTimeout => t.timeout = d.timeout
                  /\ (d.hasRetries /\ d.retries \in 0..RetriesLimit) => t.retries = d.retries
          /\ (~document.hasServer \/ document.server.version = "")
                => cfg.server.version = "1.0.0"
          /\ (document.hasServer /\ document.server.version # "")
                => cfg.server.version = document.server.version
          /\ cfg.security.rateLimit =
                IF document.security.rateLimit = 0 THEN 100 ELSE document.security.rateLimit
          /\ cfg.runtime.maxConcurrentRequests =
                IF document.runtime.maxConcurrentRequests = 0 THEN 100
                ELSE document.runtime.maxConcurrentRequests
          /\ cfg.runtime.logLevel =
                IF document.runtime.logLevel = "" THEN "info" ELSE document.runtime.logLevel
          /\ setDefaults(cfg) = cfg
C25_Witness ==
    /\ ~cfg.nil /\ timesDefaulted = 2 /\ Len(cfg.tools) = 2
    /\ document.tools[2].hasRetries /\ document.tools[2].retries = 0
    /\ document.tools[2].hasTimeout /\ document.tools[2].timeout = 0
    /\ cfg.tools[1].method = "GET" /\ cfg.tools[1].retries = 3

C27_FailureLeavesArguments ==
    (CallDone /\ outcome = "invalid_params")
       => /\ arguments = request.args
          /\ LET Fails(i) ==
                    LET param == tool.parameters[i]
                        value == request.args.m[param.name]
                    IN IF value.t = "absent" THEN param.required
                       ELSE validateParameterValue(param, value) # NoErr
                 first == CHOOSE i \in 1..Len(tool.parameters) :
                             Fails(i) /\ \A j \in 1..(i - 1) : ~Fails(j)
             IN tool.parameters[first].name \in Chunks(response.data)
C27_Witness ==
    /\ CallDone /\ outcome = "invalid_params" /\ tool.name = "create_item"
    /\ request.args = Arguments(FALSE, {}) /\ arguments.m["note"] = SNA
    /\ "name" \in Chunks(response.data)

\* C28: the registered tools have pairwise distinct names, every name in the
\* registry maps to the descriptor of that name, and a tools/call of a registered
\* name n validates against and executes tool n, not the last registered tool.
C28_LookupYieldsNamedTool ==
    (\A i, j \in 1..Len(config) : config[i].name = config[j].name => i = j)
       => /\ \A i \in 1..Len(config) :
               /\ Registered(tools, config[i].name)
               /\ Lookup(tools, config[i].name) = config[i]
          /\ (request.method = "tools/call" /\ Registered(tools, request.name))
               => /\ tool.name = request.name
                  /\ \E i \in 1..Len(config) : tool = config[i] /\ config[i].name = request.name
C28_Witness ==
    /\ CallDone /\ Len(config) = 3 /\ request.name = "get_item"
    /\ tool.name = "create_item" /\ outcome = "invalid_params"

\* C29: the response to a request is a function of that request, the startup
\* configuration and, for tools/call, the environment and what the upstream
\* answered to this call; nothing of an earlier request enters it. tools/list and
\* tools/call need no initialize before them and a repeated initialize gets the
\* same result.
C29_StatelessDispatch ==
    /\ []((pc = "idle" /\ request.verb = "POST" /\ request.wellFormed)
            => LET id == DecodeId(request.id)
                   r == Route(request.method)
               IN /\ r = "initialize" => response = writeSuccess(id, InitializeResult)
                  /\ r \in {"initialized", "ping"} => response = writeSuccess(id, EmptyResult)
                  /\ r = "tools/list"
                       => response = writeSuccess(id, ToolsListResult(ToolDefinitions(config)))
                  /\ r = "prompts/list" => response.result.kind = "prompts"
                  /\ r = "resources/list" => response.result.kind = "resources"
                  /\ r = "prompts/get" => response.hasResult = (request.name \in PromptNames)
                  /\ r = "resources/read" => response.hasResult = (request.name \in ResourceURIs)
                  /\ r = "default" => response.code = MethodNotFoundCode
                  /\ r # "tools/call" => (outcome = "" /\ sends = 0 /\ arguments = NilArguments)
                  /\ (r = "tools/call" /\ ~request.paramsOK)
                       => response.code = InvalidParamsCode
                  /\ (r = "tools/call" /\ request.paramsOK /\ ~Registered(tools, request.name))
                       => response = ToolsCallFailure(id, request.name,
                                                      <<"tool", request.name, "not found">>)
                  /\ (r = "tools/call" /\ request.paramsOK /\ Registered(tools, request.name))
                       => LET t == Lookup(tools, request.name)
                              v == validateParameters(t, request.args)
                              exec == IF outcome = "build_failed"
                                      THEN [err |-> Wrap("failed to build request:",
                                                         buildRequest(t, v.args, env).err),
                                            apiResp |-> NoAPIResponse]
                                      ELSE AfterLoop(t, resp, respClosed, lastErr)
                          IN /\ tool = t /\ arguments = v.args
                             /\ response =
                                  IF v.panic THEN NoResponse
                                  ELSE IF v.err # NoErr
                                  THEN ToolsCallFailure(
                                          id, request.name,
                                          Wrap("parameter validation failed:", v.err))
                                  ELSE ToolsCallResponse(id, ExecuteToolResult(t, exec)))
    /\ [][(pc = "idle" /\ request.method = "initialize" /\ request'.method = "initialize"
             /\ request'.id = request.id)
            => response' = response]_vars
    /\ [][(pc = "idle" /\ pc' = "build")
            => /\ tool' = Lookup(tools, request'.name)
               /\ arguments' = validateParameters(tool', request'.args).args
               /\ attempt' = 0 /\ now' = 0 /\ builds' = 0 /\ waits' = 0 /\ sends' = 0
               /\ resp' = NoResp /\ lastErr' = "" /\ ~respClosed' /\ outReq' = NoRequest]_vars
C29_Witness ==
    /\ CallDone /\ outcome = "ok" /\ response.hasResult /\ request.name = "search"
    /\ sends = 2

\* C30: while requests are handled concurrently no step writes the configuration
\* or the registry, a step of one call changes nothing of the other call, and a
\* call's argument map, injected defaults and outcome are those of its own request,
\* its own tool and the upstream's answer to it, also when both calls name one tool.
C30_CallsIsolated ==
    /\ [][config' = config /\ tools' = tools /\ env' = env]_vars
    /\ [][\A c \in CallSlots :
             calls'[c] # calls[c] => \A d \in CallSlots \ {c} : calls'[d] = calls[d]]_vars
    /\ [](\A c \in CallSlots :
             (calls[c].pc # "idle" /\ Registered(tools, calls[c].name))
                => LET t == Lookup(tools, calls[c].name)
                       v == validateParameters(t, calls[c].args)
                   IN /\ calls[c].tool = t
                      /\ calls[c].arguments = v.args
                      /\ \A k \in Keys :
                            calls[c].arguments.m[k] # calls[c].args.m[k]
                               => \E i \in 1..Len(t.parameters) :
                                     /\ t.parameters[i].name = k
                                     /\ calls[c].arguments.m[k] = t.parameters[i].default
                      /\ (calls[c].pc = "done" /\ calls[c].outcome \in {"ok", "http_error",
                                                     "exec_failed", "process_failed"})
                            => calls[c].response =
                                  ToolsCallResponse(
                                     DecodeId(calls[c].id),
                                     ExecuteToolResult(
                                        t, AfterLoop(t, calls[c].resp, calls[c].respClosed,
                                                     calls[c].lastErr))))
C30_Witness ==
    /\ calls[1].name = "search" /\ calls[2].name = "search"
    /\ calls[1].args = Arguments(FALSE, {}) /\ calls[2].args = Arguments(FALSE, {<<"id", S42>>})
    /\ calls[1].pc = "send" /\ calls[1].arguments.m["limit"] = N10
    /\ calls[2].pc = "done" /\ calls[2].outcome = "process_failed" /\ calls[2].attempt = 2
    /\ calls[2].arguments.m["id"] = S42 /\ calls[1].arguments.m["id"] = Absent

====
